---- MODULE Spec2Model ----
(***************************************************************************)
(* A model of chunky.hpp: the Stream adaptor (put-back buffer, strand),    *)
(* the HTTPTemplate exchange (request decoder, response encoder, finish)   *)
(* and SimpleHTTPServer's per-connection loop.                             *)
(*                                                                         *)
(* Bytes are one-character strings.  The bytes a client sends are the      *)
(* sequence `input`; a byte in flight on the read side (in the socket, in  *)
(* Stream::readBuffer_, in HTTPTemplate::streambuf_) is represented by its *)
(* position in `input`, so that a lost, duplicated or reordered byte is    *)
(* visible.  The bytes the server sends are the character sequence         *)
(* tcp.wire.                                                               *)
(***************************************************************************)
EXTENDS Integers, Sequences, FiniteSets, TLC

VARIABLES
    input,      \* the bytes the client sends on the connection, in order
    tcp,        \* the Stream<T> object of the connection
    http,       \* the current HTTPTemplate object (the exchange)
    conn,       \* SimpleHTTPServer: where the connection's callback chain stands
    ops,        \* asynchronous operations in flight on the exchange
    hist        \* history of the run (what was consumed, sent and called)

vars == <<input, tcp, http, conn, ops, hist>>

----------------------------------------------------------------------------
(* Sequences and characters *)

Min(a, b) == IF a <= b THEN a ELSE b

Take(s, k) == SubSeq(s, 1, k)

Drop(s, k) == SubSeq(s, k + 1, Len(s))

Range(s) == {s[i] : i \in DOMAIN s}

\* s without its i-th element.
RemoveAt(s, i) == [j \in 1..(Len(s) - 1) |-> s[IF j < i THEN j ELSE j + 1]]

Least(S) == CHOOSE x \in S : \A y \in S : x <= y

Greatest(S) == CHOOSE x \in S : \A y \in S : x >= y

RECURSIVE Flatten(_)
Flatten(ss) == IF ss = <<>> THEN <<>> ELSE Head(ss) \o Flatten(Tail(ss))

CR == "\r"

LF == "\n"

SP == " "

Digits == <<"0", "1", "2", "3", "4", "5", "6", "7", "8", "9">>

HexLower == <<"a", "b", "c", "d", "e", "f">>

HexUpper == <<"A", "B", "C", "D", "E", "F">>

UpperAlpha ==
    <<"A", "B", "C", "D", "E", "F", "G", "H", "I", "J", "K", "L", "M",
      "N", "O", "P", "Q", "R", "S", "T", "U", "V", "W", "X", "Y", "Z">>

LowerAlpha ==
    <<"a", "b", "c", "d", "e", "f", "g", "h", "i", "j", "k", "l", "m",
      "n", "o", "p", "q", "r", "s", "t", "u", "v", "w", "x", "y", "z">>

\* The characters the model uses, in ASCII order.
AsciiOrder ==
    <<"\t", LF, CR, SP, "!", "#", "%", "&", "+", ",", "-", ".", "/">>
    \o Digits \o <<":", ";", "=", "?">> \o UpperAlpha \o <<"_">> \o LowerAlpha

IndexOf(s, c) == CHOOSE i \in DOMAIN s : s[i] = c

Ord == [c \in Range(AsciiOrder) |-> IndexOf(AsciiOrder, c)]

IsDigit(c) == c \in Range(Digits)

IsSpace(c) == c \in {SP, "\t", LF, CR}

\* std::toupper, as boost::is_iless applies it to both sides.
ToUpper ==
    [c \in Range(AsciiOrder) |->
        IF c \in Range(LowerAlpha) THEN UpperAlpha[IndexOf(LowerAlpha, c)] ELSE c]

UpperCase(s) == [i \in DOMAIN s |-> ToUpper[s[i]]]

crlf == <<CR, LF>>

crlf2 == <<CR, LF, CR, LF>>

\* End position of the first occurrence of delim in cs; 0 when there is none.
FindEnd(cs, delim) ==
    LET First(E) == IF E = {} THEN 0 ELSE Least(E)
    IN  First({e \in Len(delim)..Len(cs) : SubSeq(cs, e - Len(delim) + 1, e) = delim})

\* The characters at the input positions ps.
Text(ps) == [i \in DOMAIN ps |-> input[ps[i]]]

----------------------------------------------------------------------------
(* Header maps: std::map<string, string, CaselessCompare>.  A map is a     *)
(* function from the upper-cased key to the entry as it was inserted.      *)

EmptyHeaders == [k \in {} |-> <<>>]

HasHeader(hs, key) == UpperCase(key) \in DOMAIN hs

HeaderValue(hs, key) == hs[UpperCase(key)].value

\* operator[] assignment: keeps the stored key of an existing entry.
SetHeader(hs, key, value) ==
    LET Set(u) ==
            [k \in DOMAIN hs \cup {u} |->
                IF k = u
                THEN [name |-> IF u \in DOMAIN hs THEN hs[u].name ELSE key,
                      value |-> value]
                ELSE hs[k]]
    IN  Set(UpperCase(key))

EraseHeader(hs, key) == [k \in DOMAIN hs \ {UpperCase(key)} |-> hs[k]]

\* boost::ilexicographical_compare(a, b).
CaselessLess(a, b) ==
    LET Differ(ua, ub, D) ==
            IF D = {} THEN Len(a) < Len(b)
            ELSE Ord[ua[Least(D)]] < Ord[ub[Least(D)]]
        Upper(ua, ub) ==
            Differ(ua, ub, {i \in 1..Min(Len(a), Len(b)) : ua[i] # ub[i]})
    IN  Upper(UpperCase(a), UpperCase(b))

\* The keys of a map in iteration order.
RECURSIVE SortedKeys(_)
SortedKeys(K) ==
    IF K = {} THEN <<>>
    ELSE LET Then(k) == <<k>> \o SortedKeys(K \ {k})
         IN  Then(CHOOSE x \in K : \A y \in K \ {x} : CaselessLess(x, y))

----------------------------------------------------------------------------
(* Stream<T>: the put-back buffer in front of the socket *)

\* Stream: readBuffer_ holds put-back bytes; rd counts the bytes taken from
\* the socket; wire is what the socket has been sent; broken: the socket
\* fails every write.
NewTCP == [readBuffer_ |-> <<>>, rd |-> 0, wire |-> <<>>, broken |-> FALSE, partial |-> 0]

\* The positions still unread in the socket.
SocketRest(t) == [i \in 1..(Len(input) - t.rd) |-> t.rd + i]

\* What successive Stream::read_some calls deliver: readBuffer_ first.
Source(t) == t.readBuffer_ \o SocketRest(t)

\* Stream after k bytes were read through read_some / async_read_some.
StreamTake(t, k) ==
    [t EXCEPT !.readBuffer_ = Drop(@, Min(k, Len(t.readBuffer_))),
              !.rd = @ + (k - Min(k, Len(t.readBuffer_)))]

\* A put_back that inserts at readBuffer_.end().
put_back_at_end(t, bytes) == [t EXCEPT !.readBuffer_ = @ \o bytes]

\* Stream::put_back inserts at readBuffer_.begin().
put_back(t, bytes) == [t EXCEPT !.readBuffer_ = bytes \o @]

----------------------------------------------------------------------------
(* HTTPTemplate: construction and the request decoder *)

NewHTTP ==
    [streambuf_ |-> <<>>,
     requestMethod_ |-> <<>>, requestVersion_ |-> <<>>, requestResource_ |-> <<>>,
     requestHeaders_ |-> EmptyHeaders,
     requestPath_ |-> <<>>, requestFragment_ |-> <<>>,
     requestBytes_ |-> 0, requestChunksPending_ |-> FALSE,
     responseStatus_ |-> 0,
     responseHeaders_ |-> EmptyHeaders, responseTrailers_ |-> EmptyHeaders,
     responseBytes_ |-> 0, responseChunked_ |-> FALSE]

\* The state an operation works on and leaves: the exchange h, the stream
\* t, the error code err it reports ("ok": none), the byte count n it
\* reports and the bytes out it copied into the caller's buffer.
Running(h, t) == [h |-> h, t |-> t, err |-> "ok", n |-> 0, out |-> <<>>]

MaxDiscardBufferSize == 65536

\* How far past a delimiter the model lets a read of read_until run when
\* it does not take all there is.
ReadAhead == 2

\* async_load_buffer / sync_load_buffer: boost::asio::read_until.  Nothing
\* is read when streambuf_ already holds the delimiter.  Otherwise
\* Stream::read_some is called until it does; each call delivers bytes of
\* readBuffer_ alone while that is non-empty, and of the socket otherwise,
\* and the last call delivers what completes the delimiter and some of the
\* bytes behind it: up to ReadAhead of them, or all there are.
\* The socket reports end of file once all of `input` has been read.
LoadExtents(d, all) == (d..Min(all, d + ReadAhead)) \cup {all}

load_buffer(m, delim) ==
    LET Loaded(k, err) ==
            [m EXCEPT !.h.streambuf_ = @ \o Take(Source(m.t), k),
                      !.t = StreamTake(m.t, k),
                      !.err = err]
        \* d: how many bytes of the source complete the delimiter
        Extents(d, nBuf) ==
            LoadExtents(d, IF d <= nBuf THEN nBuf ELSE Len(Source(m.t)))
        Load(e) ==
            IF e = 0 THEN {Loaded(Len(Source(m.t)), "eof")}
            ELSE {Loaded(k, "ok") :
                    k \in Extents(e - Len(m.h.streambuf_), Len(m.t.readBuffer_))}
    IN  IF FindEnd(Text(m.h.streambuf_), delim) > 0 THEN {m}
        ELSE Load(FindEnd(Text(m.h.streambuf_ \o Source(m.t)), delim))

\* get_line(): the line without its CRLF (line), the bytes consumed
\* (used) and the bytes left in streambuf_ (rest).
get_line(sb) ==
    LET Cut(e) ==
            [line |-> Text(Take(sb, e - 2)), used |-> Take(sb, e), rest |-> Drop(sb, e)]
    IN  Cut(FindEnd(Text(sb), crlf))

TokenChars ==
    Range(Digits) \cup Range(UpperAlpha) \cup Range(LowerAlpha)
    \cup {"-", "!", "#", "%", "&", "+", ".", "_"}

\* The ASCII codes of the characters of AsciiOrder.
AsciiCodes ==
    <<9, 10, 13, 32, 33, 35, 37, 38, 43, 44, 45, 46, 47>>
    \o [i \in 1..10 |-> 47 + i] \o <<58, 59, 61, 63>>
    \o [i \in 1..26 |-> 64 + i] \o <<95>> \o [i \in 1..26 |-> 96 + i]

\* static_cast<char>(code); a byte outside the model's characters is
\* written "other".
CharOfCode(code) ==
    IF \E i \in DOMAIN AsciiCodes : AsciiCodes[i] = code
    THEN AsciiOrder[CHOOSE i \in DOMAIN AsciiCodes : AsciiCodes[i] = code]
    ELSE "other"

HexDigit ==
    [c \in Range(Digits) \cup Range(HexLower) \cup Range(HexUpper) |->
        IF c \in Range(Digits) THEN IndexOf(Digits, c) - 1
        ELSE IF c \in Range(HexLower) THEN IndexOf(HexLower, c) + 9
        ELSE IndexOf(HexUpper, c) + 9]

\* decode(): up to the next '+' or '%' the text is copied; '+' becomes a
\* blank and %HH the byte HH; when the next '%' is no valid escape the
\* search fails and all the rest is copied as it is.
RECURSIVE decode(_)
decode(s) ==
    LET At(k) ==
            IF s[k] = "+" THEN Take(s, k - 1) \o <<SP>> \o decode(Drop(s, k))
            ELSE IF /\ k + 2 <= Len(s)
                    /\ s[k + 1] \in DOMAIN HexDigit
                    /\ s[k + 2] \in DOMAIN HexDigit
            THEN Take(s, k - 1)
                 \o <<CharOfCode(16 * HexDigit[s[k + 1]] + HexDigit[s[k + 2]])>>
                 \o decode(Drop(s, k + 2))
            ELSE s
        From(special) == IF special = {} THEN s ELSE At(Least(special))
    IN  From({i \in DOMAIN s : s[i] \in {"+", "%"}})

\* regex_match of (/[^?#]*)(?:\?([^#]*))?(?:#(.*))? on the resource: the
\* path and the fragment it yields, decoded; matched is FALSE when the
\* resource does not begin with '/'.
SplitResource(resource) ==
    LET Split(marks, hashes) ==
            [matched |-> resource # <<>> /\ resource[1] = "/",
             path |-> decode(Take(resource, IF marks = {} THEN Len(resource)
                                            ELSE Least(marks) - 1)),
             fragment |-> IF hashes = {} THEN <<>>
                          ELSE decode(Drop(resource, Least(hashes)))]
    IN  Split({i \in DOMAIN resource : resource[i] \in {"?", "#"}},
              {i \in DOMAIN resource : resource[i] = "#"})

\* A version test that asks for HTTP/ alone.
IsVersionByName(v) == Len(v) > 5 /\ Take(v, 5) = <<"H", "T", "T", "P", "/">>

\* Both \d of HTTP/\d\.\d.
IsVersion(v) ==
    /\ Len(v) = 8
    /\ Take(v, 5) = <<"H", "T", "T", "P", "/">>
    /\ IsDigit(v[6]) /\ v[7] = "." /\ IsDigit(v[8])

\* regex_match of ([-!#$%^&*+._'`|~0-9A-Za-z]+) (\S+) (HTTP/\d\.\d): the
\* line has exactly two blanks, which separate the three groups.
read_request_line(h) ==
    LET Located(h2, split) ==
            IF split.matched
            THEN [h |-> [h2 EXCEPT !.requestPath_ = split.path,
                                   !.requestFragment_ = split.fragment],
                  err |-> "ok"]
            ELSE [h |-> h2, err |-> "ok"]
        Matched(h2) ==
            IF h2.requestVersion_ # <<"H", "T", "T", "P", "/", "1", ".", "1">>
            THEN [h |-> h2, err |-> "unsupported_http_version"]
            ELSE Located(h2, SplitResource(h2.requestResource_))
        Groups(h1, blanks, method, resource, version) ==
            IF ~(/\ Cardinality(blanks) = 2
                 /\ method # <<>> /\ Range(method) \subseteq TokenChars
                 /\ resource # <<>> /\ \A k \in DOMAIN resource : ~IsSpace(resource[k])
                 /\ IsVersion(version))
            THEN [h |-> h1, err |-> "invalid_request_line"]
            ELSE Matched([h1 EXCEPT !.requestMethod_ = method,
                                    !.requestResource_ = resource,
                                    !.requestVersion_ = version])
        Blanks(h1, s, blanks) ==
            Groups(h1, blanks,
                   Take(s, Least(blanks) - 1),
                   SubSeq(s, Least(blanks) + 1, Greatest(blanks) - 1),
                   Drop(s, Greatest(blanks)))
        Line(g) ==
            Blanks([h EXCEPT !.streambuf_ = g.rest], g.line,
                   {i \in DOMAIN g.line : g.line[i] = SP})
    IN  Line(get_line(h.streambuf_))

\* boost::algorithm::trim_left.
RECURSIVE TrimLeft(_)
TrimLeft(s) == IF s # <<>> /\ IsSpace(Head(s)) THEN TrimLeft(Tail(s)) ELSE s

\* An insertion that lets the later of two values stand.
Overwrite(hs, key, value) == SetHeader(hs, key, value)

\* The insert-or-coalesce step of read_request_headers.
Coalesce(hs, key, value) ==
    IF HasHeader(hs, key)
    THEN SetHeader(hs, key, HeaderValue(hs, key) \o <<",", SP>> \o value)
    ELSE SetHeader(hs, key, value)

RECURSIVE read_request_headers(_)
read_request_headers(h) ==
    LET Field(h1, s, colons) ==
            IF s = <<>> THEN [h |-> h1, err |-> "ok"]
            ELSE IF colons = {} THEN [h |-> h1, err |-> "invalid_request_header"]
            ELSE read_request_headers(
                    [h1 EXCEPT !.requestHeaders_ =
                        Coalesce(@, Take(s, Least(colons) - 1),
                                 TrimLeft(Drop(s, Least(colons))))])
        Line(g) ==
            Field([h EXCEPT !.streambuf_ = g.rest], g.line,
                  {i \in DOMAIN g.line : g.line[i] = ":"})
    IN  Line(get_line(h.streambuf_))

\* The value of a digit string in the given base; digits maps a character
\* to its value.
RECURSIVE ValueOf(_, _, _)
ValueOf(s, base, digit) ==
    IF s = <<>> THEN 0
    ELSE ValueOf(Take(s, Len(s) - 1), base, digit) * base + digit[s[Len(s)]]

\* The longest prefix of s made of characters of C.
RECURSIVE PrefixIn(_, _)
PrefixIn(s, C) ==
    IF s # <<>> /\ Head(s) \in C THEN <<Head(s)>> \o PrefixIn(Tail(s), C) ELSE <<>>

DecDigit == [c \in Range(Digits) |-> IndexOf(Digits, c) - 1]

\* operator>> into a size_t: leading white space is skipped, the digits
\* that follow are converted, what follows them is left unread; -1 stands
\* for the stream's fail state (no digit).
ParseNumber(s, base, digit) ==
    LET Parsed(ds) == IF ds = <<>> THEN -1 ELSE ValueOf(ds, base, digit)
    IN  Parsed(PrefixIn(TrimLeft(s), DOMAIN digit))

\* A decoding of a header block that starts the count of the response
\* bytes afresh.
DecodedAfresh(m, r) == [m EXCEPT !.h = [r.h EXCEPT !.responseBytes_ = 0], !.err = r.err]

\* The outcome r of a decoding step, taken into the operation's state.
Decoded(m, r) == [m EXCEPT !.h = r.h, !.err = r.err]

\* read_chunk_header: the chunk length line, and after the zero-length
\* chunk the trailer block (the CRLF just consumed is restored with
\* sungetc, the block is loaded through CRLF CRLF, the restored CRLF is
\* skipped with snextc, and the trailers are read by read_request_headers).
read_chunk_header(m) ==
    LET Trailers(m3) ==
            Decoded(m3, read_request_headers([m3.h EXCEPT !.streambuf_ = Drop(@, 2)]))
        Sized(m1, g, size) ==
            IF size < 0
            THEN {[m1 EXCEPT !.h.streambuf_ = g.rest,
                             !.h.requestBytes_ = 0,
                             !.err = "invalid_chunk_length"]}
            ELSE IF size > 0
            THEN {[m1 EXCEPT !.h.streambuf_ = g.rest, !.h.requestBytes_ = size]}
            ELSE UNION {
                    IF m3.err # "ok" THEN {m3} ELSE {Trailers(m3)}
                    : m3 \in load_buffer(
                        [m1 EXCEPT
                            !.h.streambuf_ = Drop(g.used, Len(g.used) - 2) \o g.rest,
                            !.h.requestBytes_ = 0,
                            !.h.requestChunksPending_ = FALSE],
                        crlf2)}
        Line(m1, g) == Sized(m1, g, ParseNumber(g.line, 16, HexDigit))
    IN  UNION {
            IF m1.err # "ok" THEN {m1} ELSE Line(m1, get_line(m1.h.streambuf_))
            : m1 \in load_buffer(m, crlf)}

ContentLengthKey ==
    <<"c", "o", "n", "t", "e", "n", "t", "-", "l", "e", "n", "g", "t", "h">>

TransferEncodingKey ==
    <<"t", "r", "a", "n", "s", "f", "e", "r", "-",
      "e", "n", "c", "o", "d", "i", "n", "g">>

IdentityText == <<"i", "d", "e", "n", "t", "i", "t", "y">>

\* A read_length that lets a Content-Length header settle the framing.
read_length_first(m) ==
    LET Encoded(m1) ==
            IF /\ HasHeader(m1.h.requestHeaders_, TransferEncodingKey)
               /\ HeaderValue(m1.h.requestHeaders_, TransferEncodingKey) # IdentityText
            THEN read_chunk_header(
                    [m1 EXCEPT !.h.requestBytes_ = 0, !.h.requestChunksPending_ = TRUE])
            ELSE {m1}
        Sized(length) ==
            IF length < 0
            THEN {[m EXCEPT !.h.requestBytes_ = 0, !.err = "invalid_content_length"]}
            ELSE {[m EXCEPT !.h.requestBytes_ = length]}
    IN  IF HasHeader(m.h.requestHeaders_, ContentLengthKey)
        THEN Sized(ParseNumber(HeaderValue(m.h.requestHeaders_, ContentLengthKey),
                               10, DecDigit))
        ELSE Encoded(m)

\* HTTPTemplate::read_length: the framing of the body.
read_length(m) ==
    LET Encoded(m1) ==
            IF /\ HasHeader(m1.h.requestHeaders_, TransferEncodingKey)
               /\ HeaderValue(m1.h.requestHeaders_, TransferEncodingKey) # IdentityText
            THEN read_chunk_header(
                    [m1 EXCEPT !.h.requestBytes_ = 0, !.h.requestChunksPending_ = TRUE])
            ELSE {m1}
        Sized(length) ==
            IF length < 0
            THEN {[m EXCEPT !.h.requestBytes_ = 0, !.err = "invalid_content_length"]}
            ELSE Encoded([m EXCEPT !.h.requestBytes_ = length])
    IN  IF HasHeader(m.h.requestHeaders_, ContentLengthKey)
        THEN Sized(ParseNumber(HeaderValue(m.h.requestHeaders_, ContentLengthKey),
                               10, DecDigit))
        ELSE Encoded(m)

\* create(): load the header block, then decode up to the body.
create(m) ==
    LET Headers(m2) ==
            IF m2.err # "ok" THEN {m2} ELSE read_length(m2)
        Line(m2) ==
            IF m2.err # "ok" THEN {m2}
            ELSE Headers(Decoded(m2, read_request_headers(m2.h)))
    IN  UNION {
            IF m1.err # "ok" THEN {m1}
            ELSE Line(Decoded(m1, read_request_line(m1.h)))
            : m1 \in load_buffer(m, crlf2)}

----------------------------------------------------------------------------
(* HTTPTemplate: the read path *)

\* A copy out of streambuf_ that the size of the body does not bound.
CopySizeOfBuffer(h, b) == Min(b, Len(h.streambuf_))

\* buffer_copy(buffers, streambuf_.data(), requestBytes_): how many bytes
\* it copies into a buffer of b bytes.
CopySize(h, b) == Min(b, Min(Len(h.streambuf_), h.requestBytes_))

\* A test for the end of a chunk that a buffer of one byte does not pass.
AtChunkEndWithRoom(h, b) == b > 1 /\ h.requestChunksPending_ /\ h.requestBytes_ = 0

\* if (bufferSize && requestChunksPending_ && !requestBytes_): the read
\* took the last byte of a chunk that is not the last one.
AtChunkEnd(h, b) == b > 0 /\ h.requestChunksPending_ /\ h.requestBytes_ = 0

\* A count of the bytes left that goes up with the bytes taken.
BytesLeftAdding(h, nBytes) == h.requestBytes_ + nBytes

\* requestBytes_ -= nBytes: what is left of the body, or of the chunk,
\* after nBytes of it were taken.
BytesLeft(h, nBytes) == h.requestBytes_ - nBytes

\* The body of read_some / async_read_some once the request is decoded; b
\* is the size of the caller's buffer.
read_body(m, b) ==
    LET \* the chunk delimiter and the next chunk header
        Delimiter(m3, g) ==
            IF g.line # <<>>
            THEN {[m3 EXCEPT !.h.streambuf_ = g.rest, !.err = "invalid_chunk_delimiter"]}
            ELSE read_chunk_header([m3 EXCEPT !.h.streambuf_ = g.rest])
        \* the handler of boost::asio::read; m2 is the state after it
        Read(m2) ==
            IF AtChunkEnd(m2.h, b)
            THEN UNION {
                    IF m3.err # "ok" THEN {m3}
                    ELSE Delimiter(m3, get_line(m3.h.streambuf_))
                    : m3 \in load_buffer(m2, crlf)}
            ELSE {[m2 EXCEPT !.err = IF m2.n = 0 /\ b > 0 THEN "eof" ELSE "ok"]}
        \* boost::asio::read(*stream(), buffers, transfer_exactly(...))
        Stream(m1, want) ==
            IF want > Len(Source(m1.t))
            THEN {[m1 EXCEPT !.t = StreamTake(@, Len(Source(m1.t))), !.err = "eof"]}
            ELSE Read([m1 EXCEPT !.h.requestBytes_ = BytesLeft(m1.h, want),
                                 !.t = StreamTake(@, want),
                                 !.n = @ + want,
                                 !.out = @ \o Take(Source(m1.t), want)])
        \* the bytes taken from streambuf_
        Buffered(nBuf) ==
            Stream([m EXCEPT !.h.streambuf_ = Drop(@, nBuf),
                             !.h.requestBytes_ = BytesLeft(m.h, nBuf),
                             !.err = "ok",
                             !.n = nBuf,
                             !.out = Take(m.h.streambuf_, nBuf)],
                   IF nBuf > 0 THEN 0 ELSE Min(b, m.h.requestBytes_))
    IN  Buffered(IF Len(m.h.streambuf_) > 0 THEN CopySize(m.h, b) ELSE 0)

\* A read_some that reports the end of the stream whenever it returns no
\* byte, whatever the size of the buffer.
read_some_to_end(m, b) ==
    UNION {
        IF m1.err # "ok" THEN {m1}
        ELSE {[m2 EXCEPT !.err = IF @ = "ok" /\ m2.n = 0 THEN "eof" ELSE @]
              : m2 \in read_body(m1, b)}
        : m1 \in IF m.h.requestMethod_ = <<>> THEN create(m) ELSE {m}}

\* A read_some that leaves the request undecoded when the buffer is empty.
read_some_when_asked(m, b) ==
    IF b = 0 THEN {m}
    ELSE UNION {
            IF m1.err # "ok" THEN {m1} ELSE read_body(m1, b)
            : m1 \in IF m.h.requestMethod_ = <<>> THEN create(m) ELSE {m}}

\* HTTPTemplate::read_some(buffers, error) and, one completion at a time,
\* HTTPTemplate::async_read_some: the first read decodes the request.
read_some(m, b) ==
    UNION {
        IF m1.err # "ok" THEN {m1} ELSE read_body(m1, b)
        : m1 \in IF m.h.requestMethod_ = <<>> THEN create(m) ELSE {m}}

\* boost::asio::read(*this, buffer, transfer_exactly(want)): read_some is
\* called with what is left of the buffer until it is full.
RECURSIVE composed_read(_, _)
composed_read(m, want) ==
    IF want = 0 THEN {m}
    ELSE UNION {
            IF m1.err # "ok" THEN {[m1 EXCEPT !.n = m.n + m1.n, !.out = m.out \o m1.out]}
            ELSE composed_read(
                    [m1 EXCEPT !.n = m.n + m1.n, !.out = m.out \o m1.out],
                    want - m1.n)
            : m1 \in read_some([m EXCEPT !.n = 0, !.out = <<>>], want)}

\* A putback_buffer that consumes streambuf_ and puts nothing back.
putback_buffer_dropping(m) == [m EXCEPT !.h.streambuf_ = <<>>]

\* putback_buffer(): the unused bytes of streambuf_ go back to the stream.
putback_buffer(m) ==
    IF Len(m.h.streambuf_) > 0
    THEN [m EXCEPT !.t = put_back(m.t, m.h.streambuf_), !.h.streambuf_ = <<>>]
    ELSE m

\* sync_discard up to its handler call: the unread body is read and dropped.
RECURSIVE sync_discard(_)
sync_discard(m) ==
    IF m.h.requestBytes_ = 0 THEN {m}
    ELSE UNION {
            IF m1.err # "ok" THEN {m1} ELSE sync_discard(m1)
            : m1 \in composed_read([m EXCEPT !.n = 0, !.out = <<>>],
                                   Min(m.h.requestBytes_, MaxDiscardBufferSize))}

----------------------------------------------------------------------------
(* HTTPTemplate: the response encoder *)

\* boost::format's %d and %x: no leading zeros, lower-case hex digits.
RECURSIVE FormatNumber(_, _, _)
FormatNumber(n, base, digits) ==
    IF n < base THEN <<digits[n + 1]>>
    ELSE FormatNumber(n \div base, base, digits) \o <<digits[(n % base) + 1]>>

FormatDec(n) == FormatNumber(n, 10, Digits)

\* A chunk size written in decimal digits.
FormatHexInDecimal(n) == FormatNumber(n, 10, Digits)

FormatHex(n) == FormatNumber(n, 16, Digits \o HexLower)

DateKey == <<"d", "a", "t", "e">>

DateName == <<"D", "a", "t", "e">>

\* What strftime makes of the clock: a text the model does not look into.
Now == <<"n", "o", "w">>

ContentLengthName ==
    <<"C", "o", "n", "t", "e", "n", "t", "-", "L", "e", "n", "g", "t", "h">>

TransferEncodingName ==
    <<"T", "r", "a", "n", "s", "f", "e", "r", "-",
      "E", "n", "c", "o", "d", "i", "n", "g">>

ChunkedText == <<"c", "h", "u", "n", "k", "e", "d">>

HeadText == <<"H", "E", "A", "D">>

HTTP11 == <<"H", "T", "T", "P", "/", "1", ".", "1">>

\* The rows of write_status's reasons table for the statuses the model
\* uses; any other status has no row and gets the empty reason.
Reasons ==
    [st \in {100, 200, 204, 304, 404} |->
        CASE st = 100 -> <<"C", "o", "n", "t", "i", "n", "u", "e">>
          [] st = 200 -> <<"O", "K">>
          [] st = 204 -> <<"N", "o", SP, "C", "o", "n", "t", "e", "n", "t">>
          [] st = 304 -> <<"N", "o", "t", SP, "M", "o", "d", "i", "f", "i", "e", "d">>
          [] st = 404 -> <<"N", "o", "t", SP, "F", "o", "u", "n", "d">>]

write_status(h) ==
    HTTP11 \o <<SP>> \o FormatDec(h.responseStatus_) \o <<SP>>
    \o (IF h.responseStatus_ \in DOMAIN Reasons THEN Reasons[h.responseStatus_] ELSE <<>>)
    \o crlf

write_headers(hs) ==
    LET Lines(keys) ==
            Flatten([i \in DOMAIN keys |->
                        hs[keys[i]].name \o <<":", SP>> \o hs[keys[i]].value \o crlf])
    IN  Lines(SortedKeys(DOMAIN hs)) \o crlf

\* A framing decision that keeps Content-Length beside Transfer-Encoding.
ChooseFramingKeepingLength(h) ==
    IF \/ ~HasHeader(h.responseHeaders_, ContentLengthKey)
       \/ /\ HasHeader(h.responseHeaders_, TransferEncodingKey)
          /\ HeaderValue(h.responseHeaders_, TransferEncodingKey) # IdentityText
    THEN [h EXCEPT !.responseChunked_ = TRUE,
                   !.responseHeaders_ = SetHeader(@, TransferEncodingName,
                        IF HasHeader(@, TransferEncodingKey)
                           /\ HeaderValue(@, TransferEncodingKey) # IdentityText
                        THEN HeaderValue(@, TransferEncodingKey)
                        ELSE ChunkedText)]
    ELSE h

\* The framing decision of prepare_write_prefix, made under
\* responseBytes_ == 0 for a response that may carry a body.
ChooseFraming(h) ==
    IF /\ HasHeader(h.responseHeaders_, TransferEncodingKey)
       /\ HeaderValue(h.responseHeaders_, TransferEncodingKey) # IdentityText
    THEN [h EXCEPT !.responseChunked_ = TRUE,
                   !.responseHeaders_ = EraseHeader(@, ContentLengthKey)]
    ELSE IF ~HasHeader(h.responseHeaders_, ContentLengthKey)
    THEN [h EXCEPT !.responseChunked_ = TRUE,
                   !.responseHeaders_ = SetHeader(@, TransferEncodingName, ChunkedText)]
    ELSE h

\* Whether prepare_write_prefix takes the response for one that may carry
\* a body.
MayCarryBody(h) ==
    /\ h.responseStatus_ >= 200
    /\ h.responseStatus_ # 204
    /\ h.responseStatus_ # 304
    /\ h.requestMethod_ # HeadText

\* Whether prepare_write_prefix emits the status line and the headers.
PrologueDue(h) == h.responseBytes_ = 0

\* prepare_write_prefix(nBytes): the exchange it leaves and the text.
prepare_write_prefix(h, nBytes) ==
    LET Prefix(h1) ==
            [h |-> h1,
             text |-> (IF PrologueDue(h)
                       THEN write_status(h1) \o write_headers(h1.responseHeaders_)
                       ELSE <<>>)
                      \o (IF h1.responseChunked_ THEN FormatHex(nBytes) \o crlf ELSE <<>>)]
        Framed(dated) == IF MayCarryBody(dated) THEN ChooseFraming(dated) ELSE dated
    IN  IF ~PrologueDue(h) THEN Prefix(h)
        ELSE IF HasHeader(h.responseHeaders_, DateKey) THEN Prefix(Framed(h))
        ELSE Prefix(Framed([h EXCEPT !.responseHeaders_ = SetHeader(@, DateName, Now)]))

prepare_write_suffix(h, nBytes) ==
    IF h.responseChunked_
    THEN IF nBytes > 0 THEN crlf ELSE write_headers(h.responseTrailers_)
    ELSE <<>>

\* A count that takes an empty write for one byte.
BytesWrittenAtLeastOne(nBytes) == IF nBytes = 0 THEN 1 ELSE nBytes

\* The count write_some adds to responseBytes_.
BytesWritten(nBytes) == nBytes

\* HTTPTemplate::write_some(buffers, error): one boost::asio::write of
\* prefix, body and suffix.  A broken socket accepts nothing and reports
\* an error; nothing is written, and no error arises, for an empty chunk.
write_some(m, body) ==
    LET Write(h1, chunk, failed) ==
            [h |-> [h1 EXCEPT !.responseBytes_ = @ + BytesWritten(Len(body))],
             t |-> IF failed THEN m.t ELSE [m.t EXCEPT !.wire = @ \o chunk],
             err |-> IF failed THEN "io_error" ELSE "ok",
             n |-> Len(body),
             out |-> <<>>]
        Chunk(h1, chunk) == Write(h1, chunk, m.t.broken /\ chunk # <<>>)
        Prefixed(p) ==
            Chunk(p.h, p.text \o body \o prepare_write_suffix(p.h, Len(body)))
    IN  Prefixed(prepare_write_prefix(m.h, Len(body)))

\* A finish() that drains the request body whatever the status.
finish_draining(m) ==
    UNION {
        IF m1.err # "ok" THEN {m1}
        ELSE {write_some(putback_buffer(putback_buffer(m1)), <<>>)}
        : m1 \in sync_discard(m)}

\* HTTPTemplate::finish(): err # "ok" stands for the exception it throws.
finish(m) ==
    LET \* lines 332-339: the second put-back and the final empty chunk
        Epilogue(m1) == write_some(putback_buffer(m1), <<>>)
    IN  IF m.h.responseStatus_ >= 200
        THEN UNION {
                IF m1.err # "ok" THEN {m1} ELSE {Epilogue(putback_buffer(m1))}
                : m1 \in sync_discard(m)}
        ELSE {Epilogue(putback_buffer(m))}

----------------------------------------------------------------------------
(* The requests a client sends *)

GetText == <<"G", "E", "T">>

PutText == <<"P", "U", "T">>

RequestLine(method, resource) ==
    method \o <<SP>> \o resource \o <<SP>> \o HTTP11 \o crlf

HeaderLine(name, value) == name \o <<":", SP>> \o value \o crlf

\* A request together with what a client means by it: its method, its
\* path and its body.
Request(method, path, headers, framing, body) ==
    [text |-> RequestLine(method, path) \o headers \o crlf \o framing,
     method |-> method, path |-> path, body |-> body]

\* GET /a with no body.
PlainGet == Request(GetText, <<"/", "a">>, <<>>, <<>>, <<>>)

\* HEAD /a.
PlainHead == Request(HeadText, <<"/", "a">>, <<>>, <<>>, <<>>)

\* GET /x, a path no handler is registered for.
UnknownGet == Request(GetText, <<"/", "x">>, <<>>, <<>>, <<>>)

\* PUT /a with a Content-Length body.
LengthPut ==
    Request(PutText, <<"/", "a">>, HeaderLine(ContentLengthName, <<"2">>),
            <<"x", "y">>, <<"x", "y">>)

\* PUT /a with a chunked body of two chunks and no trailer.
ChunkedPut ==
    Request(PutText, <<"/", "a">>, HeaderLine(TransferEncodingName, ChunkedText),
            <<"2">> \o crlf \o <<"x", "y">> \o crlf
            \o <<"1">> \o crlf \o <<"z">> \o crlf
            \o <<"0">> \o crlf \o crlf,
            <<"x", "y", "z">>)

\* PUT /a with a chunked body of one chunk and a trailer.
TrailerPut ==
    Request(PutText, <<"/", "a">>, HeaderLine(TransferEncodingName, ChunkedText),
            <<"1">> \o crlf \o <<"x">> \o crlf
            \o <<"0">> \o crlf \o HeaderLine(<<"T">>, <<"v">>) \o crlf,
            <<"x">>)

\* The end position of each request of a session within its bytes.
RECURSIVE EndsOf(_, _)
EndsOf(session, from) ==
    IF session = <<>> THEN <<>>
    ELSE <<from + Len(Head(session).text)>>
         \o EndsOf(Tail(session), from + Len(Head(session).text))

SessionText(session) == Flatten([i \in DOMAIN session |-> session[i].text])

----------------------------------------------------------------------------
(* Asynchronous operations of an exchange *)

\* How many bytes the socket takes of an asynchronous write when it does
\* not take all of it, and how often on a connection it does so.
MaxAccept == 1

MaxPartial == 1

\* ops.writes: the composed boost::asio::async_write operations in flight,
\* in the order of submission; rest is what the operation has still to
\* write, nBytes the size of the caller's buffer, role tells its completion
\* handler.  ops.discard: the drain started by async_finish.  ops.refs,
\* ops.result, ops.calls: the reference count and the value of
\* async_finish's shared error_code, and how often its deleter has invoked
\* the FinishHandler.  ops.done: which of async_finish's two operations have
\* completed, in the order they did.
NoOps ==
    [writes |-> <<>>, discard |-> "none", refs |-> 0, result |-> "ok", calls |-> 0,
     done |-> <<>>]

\* HTTPTemplate::async_write_some up to the boost::asio::async_write call.
async_write_some(h, o, body, role, id) ==
    LET Prefixed(p) ==
            [h |-> p.h,
             o |-> [o EXCEPT !.writes =
                    Append(@, [rest |-> p.text \o body
                                        \o prepare_write_suffix(p.h, Len(body)),
                               nBytes |-> Len(body), role |-> role,
                               id |-> id, started |-> FALSE])]]
    IN  Prefixed(prepare_write_prefix(h, Len(body)))

\* A deleter that runs whenever a reference goes.
ReleaseEach(o) == [o EXCEPT !.refs = @ - 1, !.calls = @ + 1]

\* The deleter of async_finish's shared_ptr<error_code>: the FinishHandler
\* is invoked when the last reference goes.
Release(o) ==
    [o EXCEPT !.refs = @ - 1, !.calls = IF o.refs = 1 THEN @ + 1 ELSE @]

\* The handler async_finish gives async_discard.
DiscardHandler(m, o, error) ==
    [m |-> putback_buffer(m),
     o |-> [o EXCEPT !.result = error, !.discard = "done",
                     !.done = Append(@, "discard")]]

\* HTTPTemplate::async_finish up to its return; id numbers the write.
async_finish(h, t, o, id) ==
    LET \* the final empty chunk is submitted and the local reference goes
        Written(t1, w) == [h |-> w.h, t |-> t1, o |-> Release(w.o)]
        Write(d) ==
            Written(d.m.t,
                    async_write_some(d.m.h, [d.o EXCEPT !.refs = @ + 1],
                                     <<>>, "final", id))
        \* the drain, or the put-back alone for a 1xx status
        Discard(m, o1) ==
            IF h.responseStatus_ >= 200
            THEN IF h.requestBytes_ > 0
                 THEN Write([m |-> m,
                             o |-> [o1 EXCEPT !.discard = "pending", !.refs = @ + 1]])
                 ELSE Write(DiscardHandler(m, o1, "ok"))
            ELSE Write([m |-> putback_buffer(m), o |-> o1])
    IN  Discard(Running(h, t),
                [o EXCEPT !.refs = 1, !.result = "ok", !.calls = 0, !.discard = "none",
                          !.done = <<>>])

\* What the socket takes of a write of n bytes.
AcceptSizes(t, n) ==
    {n} \cup (IF t.partial < MaxPartial THEN 1..Min(n - 1, MaxAccept) ELSE {})

----------------------------------------------------------------------------
(* SimpleHTTPServer: one connection, and the handlers *)

\* The largest buffer a handler reads into.
MaxRead == 2

\* How many informational (1xx) responses a handler sends.
MaxInterims == 1

\* How many asynchronous writes a handler has in flight.
MaxInFlight == 2

\* The body the handler registered for /a responds with.
ResponseBody == <<"h", "i">>

\* default_handler's NotFound.
NotFound ==
    <<"<", "t", "i", "t", "l", "e", ">", "4", "0", "4", SP, "-", SP,
      "N", "o", "t", SP, "F", "o", "u", "n", "d", "<", "/", "t", "i", "t", "l", "e", ">",
      "<", "h", "1", ">", "4", "0", "4", SP, "-", SP,
      "N", "o", "t", SP, "F", "o", "u", "n", "d", "<", "/", "h", "1", ">">>

ContentTypeName == <<"C", "o", "n", "t", "e", "n", "t", "-", "T", "y", "p", "e">>

TextHtml == <<"t", "e", "x", "t", "/", "h", "t", "m", "l">>

NewConn == [pc |-> "idle", exchange |-> 0, status |-> "ok", running |-> TRUE]

NewHist(session) ==
    [ends |-> EndsOf(session, 0),
     session |-> [i \in DOMAIN session |-> [method |-> session[i].method,
                                            path |-> session[i].path,
                                            body |-> session[i].body]],
     finalDone |-> "no",      \* the final finish of the exchange: no, ok, failed
     prevFinished |-> TRUE,   \* the exchange before this one had finished
     carried |-> FALSE,       \* readBuffer_ held bytes when the exchange was created
     replies |-> <<>>,        \* the final responses decided on, in order
     body |-> <<>>,           \* request body bytes the handler was given
     sent |-> 0,              \* bytes of ResponseBody written
     interims |-> 0,          \* 1xx responses sent on the exchange
     submitted |-> 0,         \* asynchronous writes submitted on the connection
     log |-> <<>>,            \* the write_some and finish calls of SpecWrite
     order |-> <<>>]          \* whose bytes the socket took, in order

\* The sessions of two requests a client sends to the server.
Sessions ==
    {<<r1, r2>> : r1 \in {PlainGet, LengthPut, ChunkedPut, TrailerPut, UnknownGet},
                  r2 \in {PlainGet, LengthPut}}

InitWith(sessions) ==
    /\ \E session \in sessions :
        /\ input = SessionText(session)
        /\ hist = NewHist(session)
    /\ tcp = NewTCP
    /\ http = NewHTTP
    /\ conn = NewConn
    /\ ops = NoOps

Init == InitWith(Sessions)

\* A deleter that does not look at *status.
DeleterOfAny(c) ==
    [c EXCEPT !.pc = IF c.running THEN "idle" ELSE "closed"]

\* The deleter of handle_connect's shared_ptr<HTTP>: the next exchange is
\* posted unless the initial read failed or the server stopped.
Deleter(c) ==
    [c EXCEPT !.pc = IF c.status = "ok" /\ c.running THEN "idle" ELSE "closed"]

\* handle_connect up to its async_read_some call: a new exchange.
HandleConnect ==
    /\ conn.pc = "idle"
    /\ http' = NewHTTP
    /\ ops' = NoOps
    /\ conn' = [conn EXCEPT !.pc = "reading", !.exchange = @ + 1]
    /\ hist' = [hist EXCEPT !.prevFinished = (conn.exchange = 0 \/ hist.finalDone # "no"),
                            !.finalDone = "no",
                            !.carried = tcp.readBuffer_ # <<>>,
                            !.body = <<>>, !.sent = 0, !.interims = 0]
    /\ UNCHANGED <<input, tcp>>

\* Whether a handler is registered for the path.
Registered(path) == path = <<"/", "a">>

\* default_handler up to its boost::asio::async_write call.
default_handler(h, o, id) ==
    async_write_some(
        [h EXCEPT !.responseStatus_ = 404,
                  !.responseHeaders_ = SetHeader(@, ContentTypeName, TextHtml)],
        o, NotFound, "notfound", id)

\* The completion of handle_connect's null read.  An error is stored in
\* *status and the exchange is dropped; otherwise the handler found for
\* request_path() is called, default_handler when there is none.
DecodeDone ==
    /\ conn.pc = "reading"
    /\ \E m \in read_some(Running(http, tcp), 0) :
        /\ tcp' = m.t
        /\ IF m.err # "ok"
           THEN /\ http' = m.h
                /\ conn' = Deleter([conn EXCEPT !.status = m.err])
                /\ UNCHANGED <<ops, hist>>
           ELSE IF Registered(m.h.requestPath_)
           THEN /\ http' = m.h
                /\ conn' = [conn EXCEPT !.pc = "handler"]
                /\ UNCHANGED <<ops, hist>>
           ELSE LET d == default_handler(m.h, ops, hist.submitted + 1)
                IN  /\ http' = d.h
                    /\ ops' = d.o
                    /\ conn' = [conn EXCEPT !.pc = "default"]
                    /\ hist' = [hist EXCEPT
                                !.submitted = @ + 1,
                                !.replies = Append(@, [status |-> 404, body |-> NotFound])]
    /\ UNCHANGED input

\* The handler reads the request body: read_some(buffer of b bytes, error).
HRead(b) ==
    /\ conn.pc \in {"handler", "respond"}
    /\ \E m \in read_some(Running(http, tcp), b) :
        /\ http' = m.h
        /\ tcp' = m.t
        /\ hist' = [hist EXCEPT !.body = @ \o m.out]
    /\ UNCHANGED <<input, conn, ops>>

\* The handler answers 100 Continue: response_status() = 100; finish(error).
HInterim ==
    /\ conn.pc = "handler"
    /\ hist.interims < MaxInterims
    /\ \E m \in finish(Running([http EXCEPT !.responseStatus_ = 100], tcp)) :
        /\ http' = m.h
        /\ tcp' = m.t
    /\ hist' = [hist EXCEPT !.interims = @ + 1]
    /\ UNCHANGED <<input, conn, ops>>

\* The handler sets the final status and, when it frames the body itself,
\* the Content-Length header.
HBegin(withLength) ==
    /\ conn.pc = "handler"
    /\ http' = [http EXCEPT
                !.responseStatus_ = 200,
                !.responseHeaders_ =
                    IF withLength
                    THEN SetHeader(@, ContentLengthName, FormatDec(Len(ResponseBody)))
                    ELSE @]
    /\ conn' = [conn EXCEPT !.pc = "respond"]
    /\ UNCHANGED <<input, tcp, ops, hist>>

\* The handler writes the next k bytes of its body: write_some(buffer, error).
HWrite(k) ==
    /\ conn.pc = "respond"
    /\ hist.sent + k <= Len(ResponseBody)
    /\ LET m == write_some(Running(http, tcp),
                           SubSeq(ResponseBody, hist.sent + 1, hist.sent + k))
       IN  /\ http' = m.h
           /\ tcp' = m.t
    /\ hist' = [hist EXCEPT !.sent = @ + k]
    /\ UNCHANGED <<input, conn, ops>>

\* The response the handler has made when it ends the exchange.
Reply == [status |-> http.responseStatus_, body |-> Take(ResponseBody, hist.sent)]

\* A handler that announced a Content-Length writes that many bytes before
\* it ends the exchange.
MayEnd ==
    HasHeader(http.responseHeaders_, ContentLengthKey) => hist.sent = Len(ResponseBody)

\* The handler ends the exchange: finish(error).
HFinish ==
    /\ conn.pc = "respond"
    /\ MayEnd
    /\ \E m \in finish(Running(http, tcp)) :
        /\ http' = m.h
        /\ tcp' = m.t
        /\ hist' = [hist EXCEPT !.finalDone = IF m.err = "ok" THEN "ok" ELSE "failed",
                                !.replies = Append(@, Reply)]
    /\ conn' = [conn EXCEPT !.pc = "finished"]
    /\ UNCHANGED <<input, ops>>

\* The handler ends the exchange with async_finish, when the writes it
\* submitted have completed; its FinishHandler keeps the exchange alive.
HAsyncFinish ==
    /\ conn.pc = "respond"
    /\ MayEnd
    /\ ops.writes = <<>>
    /\ LET f == async_finish(http, tcp, ops, hist.submitted + 1)
       IN  /\ http' = f.h
           /\ tcp' = f.t
           /\ ops' = f.o
    /\ conn' = [conn EXCEPT !.pc = "finishing"]
    /\ hist' = [hist EXCEPT !.submitted = @ + 1, !.replies = Append(@, Reply)]
    /\ UNCHANGED input

\* What follows in the callback that made the step from o to o1: the
\* FinishHandler, when the step invoked it, ends the exchange.
AfterStep(o, o1) ==
    IF o1.calls > o.calls
    THEN /\ conn' = [conn EXCEPT !.pc = "finished"]
         /\ hist' = [hist EXCEPT !.finalDone = IF o1.result = "ok" THEN "ok" ELSE "failed"]
    ELSE UNCHANGED <<conn, hist>>

\* One boost::asio::async_read of async_discard completes: the next one is
\* started, or async_finish's handler is called.
DiscardStep ==
    /\ ops.discard = "pending"
    /\ \E m \in composed_read(Running(http, tcp),
                              Min(http.requestBytes_, MaxDiscardBufferSize)) :
        LET Done(x) == [m |-> x.m, o |-> Release(x.o)]
            Step(d) ==
                /\ http' = d.m.h
                /\ tcp' = d.m.t
                /\ ops' = d.o
                /\ AfterStep(ops, d.o)
        IN  IF m.err # "ok" \/ m.h.requestBytes_ = 0
            THEN Step(Done(DiscardHandler(m, ops, m.err)))
            ELSE Step([m |-> m, o |-> ops])
    /\ UNCHANGED input

\* The strand runs the Stream::async_write_some calls one at a time, in
\* the order they were made: an operation makes its first call after the
\* operations submitted before it.
MayStep(o, i) == \A j \in 1..(i - 1) : o.writes[j].started

\* One Stream::async_write_some of the write operation i completes: the
\* socket took k bytes, or failed.  When nothing is left, or on failure,
\* the operation's handler is called.
WriteStep(i, k) ==
    /\ i \in DOMAIN ops.writes
    /\ MayStep(ops, i)
    /\ k \in AcceptSizes(tcp, Len(ops.writes[i].rest))
    /\ LET \* async_finish's write handler: *result = error
           Final(h1, t1, o2, hist1) ==
                /\ http' = h1 /\ tcp' = t1 /\ ops' = o2
                /\ IF o2.calls > ops.calls
                   THEN /\ conn' = [conn EXCEPT !.pc = "finished"]
                        /\ hist' = [hist1 EXCEPT !.finalDone =
                                        IF o2.result = "ok" THEN "ok" ELSE "failed"]
                   ELSE /\ conn' = conn
                        /\ hist' = hist1
           \* default_handler's write handler, when the write succeeded
           Finishing(f, hist1) ==
                /\ http' = f.h /\ tcp' = f.t /\ ops' = f.o
                /\ conn' = [conn EXCEPT !.pc = "finishing"]
                /\ hist' = [hist1 EXCEPT !.submitted = @ + 1]
           Handler(w, failed, h1, t1, o1, hist1) ==
                IF w.role = "final"
                THEN Final(h1, t1,
                           Release([o1 EXCEPT
                                        !.result = IF failed THEN "io_error" ELSE "ok",
                                        !.done = Append(@, "write")]),
                           hist1)
                ELSE IF w.role = "notfound" /\ ~failed
                THEN Finishing(async_finish(h1, t1, o1, hist.submitted + 1), hist1)
                ELSE \* default_handler logs the error and returns; a
                     \* handler's own write goes on elsewhere
                     /\ http' = h1 /\ tcp' = t1 /\ ops' = o1
                     /\ conn' = IF w.role = "notfound" THEN Deleter(conn) ELSE conn
                     /\ hist' = hist1
           Taken(w, failed, taken, hist1) ==
                IF ~failed /\ taken < Len(w.rest)
                THEN /\ tcp' = [tcp EXCEPT !.wire = @ \o Take(w.rest, taken),
                                           !.partial = @ + 1]
                     /\ ops' = [ops EXCEPT !.writes[i].rest = Drop(@, taken),
                                           !.writes[i].started = TRUE]
                     /\ hist' = hist1
                     /\ UNCHANGED <<http, conn>>
                ELSE Handler(w, failed,
                             IF failed THEN http
                             ELSE [http EXCEPT !.responseBytes_ =
                                                    @ + BytesWritten(w.nBytes)],
                             [tcp EXCEPT !.wire = @ \o Take(w.rest, taken)],
                             [ops EXCEPT !.writes = RemoveAt(@, i)],
                             hist1)
           Step(w, failed) ==
                Taken(w, failed, IF failed THEN 0 ELSE k,
                      IF ~failed /\ k > 0
                         /\ (hist.order = <<>> \/ hist.order[Len(hist.order)] # w.id)
                      THEN [hist EXCEPT !.order = Append(@, w.id)]
                      ELSE hist)
       IN  Step(ops.writes[i], tcp.broken /\ ops.writes[i].rest # <<>>)
    /\ UNCHANGED input

\* The handler returns and the last reference to the exchange goes.
HReturn ==
    /\ conn.pc = "finished"
    /\ conn' = Deleter(conn)
    /\ UNCHANGED <<input, tcp, http, ops, hist>>

\* The client resets the connection: the socket fails every later write.
Break ==
    /\ conn.pc # "closed"
    /\ ~tcp.broken
    /\ tcp' = [tcp EXCEPT !.broken = TRUE]
    /\ UNCHANGED <<input, http, conn, ops, hist>>

Next ==
    \/ HandleConnect
    \/ DecodeDone
    \/ \E b \in 0..MaxRead : HRead(b)
    \/ HInterim
    \/ \E withLength \in BOOLEAN : HBegin(withLength)
    \/ \E k \in 1..Len(ResponseBody) : HWrite(k)
    \/ HFinish
    \/ HAsyncFinish
    \/ DiscardStep
    \/ \E i \in 1..Len(ops.writes) : \E k \in 0..Len(ops.writes[i].rest) : WriteStep(i, k)
    \/ HReturn

Spec == Init /\ [][Next]_vars

\* The handler submits the next k bytes of its body, without waiting for
\* the writes it has submitted: async_write_some(buffer, handler).
HAsyncWrite(k) ==
    /\ conn.pc = "respond"
    /\ Len(ops.writes) < MaxInFlight
    /\ hist.sent + k <= Len(ResponseBody)
    /\ LET w == async_write_some(http, ops,
                                 SubSeq(ResponseBody, hist.sent + 1, hist.sent + k),
                                 "body", hist.submitted + 1)
       IN  /\ http' = w.h
           /\ ops' = w.o
    /\ hist' = [hist EXCEPT !.sent = @ + k, !.submitted = @ + 1]
    /\ UNCHANGED <<input, tcp, conn>>

\* One exchange whose handler writes asynchronously.
InitAsync == InitWith({<<PlainGet>>, <<LengthPut>>})

NextAsync ==
    \/ HandleConnect
    \/ DecodeDone
    \/ \E withLength \in BOOLEAN : HBegin(withLength)
    \/ \E k \in 1..Len(ResponseBody) : HAsyncWrite(k)
    \/ \E i \in 1..Len(ops.writes) : \E k \in 0..Len(ops.writes[i].rest) : WriteStep(i, k)
    \/ HAsyncFinish
    \/ DiscardStep
    \/ HReturn

SpecAsync == InitAsync /\ [][NextAsync]_vars

\* How many write_some and finish calls a handler makes on an exchange.
MaxCalls == 3

\* The statuses a handler gives its responses.
Statuses == {100, 200, 204, 304}

TrailerName == <<"T">>

TrailerValue == <<"v">>

\* The handler sets the status, and after an informational status the
\* next one: response_status() = st.
WStatus(st) ==
    /\ conn.pc = "handler"
    /\ http.responseStatus_ < 200
    /\ http.responseStatus_ # st
    /\ http' = [http EXCEPT !.responseStatus_ = st]
    /\ UNCHANGED <<input, tcp, conn, ops, hist>>

\* The handler sets a framing header before its first call:
\* response_headers()[name] = value.
WHeader(name, value) ==
    /\ conn.pc = "handler"
    /\ hist.log = <<>>
    /\ ~HasHeader(http.responseHeaders_, name)
    /\ http' = [http EXCEPT !.responseHeaders_ = SetHeader(@, name, value)]
    /\ UNCHANGED <<input, tcp, conn, ops, hist>>

\* The handler sets a trailer before its first call:
\* response_trailers()[name] = value.
WTrailer ==
    /\ conn.pc = "handler"
    /\ hist.log = <<>>
    /\ ~HasHeader(http.responseTrailers_, TrailerName)
    /\ http' = [http EXCEPT !.responseTrailers_ = SetHeader(@, TrailerName, TrailerValue)]
    /\ UNCHANGED <<input, tcp, conn, ops, hist>>

\* The record of a call: what it was, the exchange before and after it,
\* what it reported and the part of the wire it wrote.
Call(op, n, m) ==
    [op |-> op, n |-> n, pre |-> http, post |-> m.h, ret |-> m.n,
     from |-> Len(tcp.wire), to |-> Len(m.t.wire)]

\* The handler writes n bytes: write_some(buffer, error); none is
\* write_some(null_buffers(), error).
WWrite(n) ==
    /\ conn.pc = "handler"
    /\ http.responseStatus_ >= 100
    /\ Len(hist.log) < MaxCalls
    /\ LET m == write_some(Running(http, tcp), Take(ResponseBody, n))
       IN  /\ http' = m.h
           /\ tcp' = m.t
           /\ hist' = [hist EXCEPT !.log = Append(@, Call("write", n, m))]
    /\ UNCHANGED <<input, conn, ops>>

\* The handler calls finish(error).
WFinish ==
    /\ conn.pc = "handler"
    /\ http.responseStatus_ >= 100
    /\ Len(hist.log) < MaxCalls
    /\ \E m \in finish(Running(http, tcp)) :
        /\ http' = m.h
        /\ tcp' = m.t
        /\ hist' = [hist EXCEPT !.log = Append(@, Call("finish", 0, m))]
    /\ UNCHANGED <<input, conn, ops>>

\* One exchange, on a GET or a HEAD request, whose handler calls the
\* encoder as it likes.
InitWrite == InitWith({<<PlainGet>>, <<PlainHead>>})

NextWrite ==
    \/ HandleConnect
    \/ DecodeDone
    \/ \E st \in Statuses : WStatus(st)
    \/ WHeader(ContentLengthName, FormatDec(Len(ResponseBody)))
    \/ \E value \in {ChunkedText, IdentityText} : WHeader(TransferEncodingName, value)
    \/ WTrailer
    \/ \E n \in 0..Len(ResponseBody) : WWrite(n)
    \/ WFinish

SpecWrite == InitWrite /\ [][NextWrite]_vars

\* The handler changes the status after a call of the encoder:
\* response_status() = st.
WLateStatus(st) ==
    /\ conn.pc = "handler"
    /\ hist.log # <<>>
    /\ http.responseStatus_ >= 200
    /\ http.responseStatus_ # st
    /\ http' = [http EXCEPT !.responseStatus_ = st]
    /\ UNCHANGED <<input, tcp, conn, ops, hist>>

\* The handler sets a framing header after a call of the encoder:
\* response_headers()[name] = value.
WLateHeader(name, value) ==
    /\ conn.pc = "handler"
    /\ hist.log # <<>>
    /\ ~HasHeader(http.responseHeaders_, name)
    /\ http' = [http EXCEPT !.responseHeaders_ = SetHeader(@, name, value)]
    /\ UNCHANGED <<input, tcp, conn, ops, hist>>

\* One exchange on a GET request whose handler changes the status and the
\* headers between its calls of the encoder.
InitMutate == InitWith({<<PlainGet>>})

NextMutate ==
    \/ HandleConnect
    \/ DecodeDone
    \/ \E st \in {200, 204} : WStatus(st)
    \/ WHeader(ContentLengthName, FormatDec(Len(ResponseBody)))
    \/ \E n \in 0..1 : WWrite(n)
    \/ WFinish
    \/ \E st \in {200, 204} : WLateStatus(st)
    \/ WLateHeader(ContentLengthName, FormatDec(Len(ResponseBody)))
    \/ WLateHeader(TransferEncodingName, ChunkedText)

SpecMutate == InitMutate /\ [][NextMutate]_vars

\* The same server with a client that may reset the connection, for the
\* sessions whose first request finds no handler.
InitFail == InitWith({session \in Sessions : ~Registered(session[1].path)})

NextFail == Next \/ Break

SpecFail == InitFail /\ [][NextFail]_vars

\* The same server on a connection that carries one PUT request.
InitPut == InitWith({<<LengthPut>>, <<ChunkedPut>>, <<TrailerPut>>})

SpecPut == InitPut /\ [][Next]_vars

\* PUT /a with a chunked body whose second chunk is longer than its first.
RisingPut ==
    Request(PutText, <<"/", "a">>, HeaderLine(TransferEncodingName, ChunkedText),
            <<"1">> \o crlf \o <<"x">> \o crlf
            \o <<"2">> \o crlf \o <<"y", "z">> \o crlf
            \o <<"0">> \o crlf \o crlf,
            <<"x", "y", "z">>)

\* The same server on a connection that carries one PUT request with a
\* body: under Content-Length, or in chunks, with and without a trailer.
InitDrain == InitWith({<<LengthPut>>, <<ChunkedPut>>, <<RisingPut>>, <<TrailerPut>>})

\* A step of the drain of async_finish, and a step of an asynchronous
\* write, told by what they change.
Drains ==
    /\ ops.discard = "pending"
    /\ ops'.writes = ops.writes
    /\ <<http, tcp, ops>>' # <<http, tcp, ops>>

Writes ==
    /\ ops.writes # <<>>
    /\ ops'.writes # ops.writes
    /\ Len(ops'.writes) <= Len(ops.writes)

\* io_service::run() goes on running the handlers of the operations that
\* have completed, and the request has arrived whole: the read of a drain
\* that is pending and the socket write of an operation in flight are
\* taken in the end.  This is weak fairness of DiscardStep and of
\* WriteStep, written out with the conditions under which they are
\* enabled.
SpecDrain ==
    /\ InitDrain
    /\ [][Next]_vars
    /\ ([]<>(ops.discard # "pending") \/ []<><<Drains>>_vars)
    /\ ([]<>(ops.writes = <<>>) \/ []<><<Writes>>_vars)

\* The same server on a connection that carries one PUT request and that
\* the client may reset.
InitBreak == InitWith({<<LengthPut>>, <<RisingPut>>, <<TrailerPut>>})

SpecBreak == InitBreak /\ [][NextFail]_vars

----------------------------------------------------------------------------
(* An exchange read by the code that constructed it *)

\* A request whose first line is not one a client should send.
Malformed(line, headers, framing) ==
    [text |-> line \o crlf \o headers \o crlf \o framing,
     method |-> <<>>, path |-> <<>>, body |-> <<>>]

GetLine(version) == GetText \o <<SP, "/", "a", SP>> \o version

\* GET /a under versions other than HTTP/1.1, the second with a header
\* line without a colon behind it.
OtherVersionGets ==
    {Malformed(GetLine(<<"H", "T", "T", "P", "/", "1", ".", "0">>), <<>>, <<>>),
     Malformed(GetLine(<<"H", "T", "T", "P", "/", "1", ".", "0">>),
               <<"H", "o", "s", "t">> \o crlf, <<>>),
     Malformed(GetLine(<<"H", "T", "T", "P", "/", "2", ".", "0">>), <<>>, <<>>)}

\* Lines that are no request line: a version without minor number,
\* another protocol, no target, a blank too many.
NoRequestLineGets ==
    {Malformed(GetLine(<<"H", "T", "T", "P", "/", "2">>), <<>>, <<>>),
     Malformed(GetLine(<<"H", "T", "T", "P", "S", "/", "1", ".", "1">>), <<>>, <<>>),
     Malformed(GetText \o <<SP>> \o HTTP11, <<>>, <<>>),
     Malformed(GetText \o <<SP, SP, "/", "a", SP>> \o HTTP11, <<>>, <<>>)}

\* Requests that fail behind the request line: a header line without a
\* colon, a Content-Length that is no number, a chunk length that is no
\* number, a chunk with a byte more than its length.
FlawedRequests ==
    {Request(GetText, <<"/", "a">>, <<"H", "o", "s", "t">> \o crlf, <<>>, <<>>),
     Request(PutText, <<"/", "a">>, HeaderLine(ContentLengthName, <<"x">>),
             <<"x", "y">>, <<"x", "y">>),
     Request(PutText, <<"/", "a">>, HeaderLine(TransferEncodingName, ChunkedText),
             <<"z">> \o crlf \o <<"x">> \o crlf \o <<"0">> \o crlf \o crlf, <<"x">>),
     Request(PutText, <<"/", "a">>, HeaderLine(TransferEncodingName, ChunkedText),
             <<"1">> \o crlf \o <<"x", "y">> \o crlf \o <<"0">> \o crlf \o crlf,
             <<"x">>)}

\* Header lines whose names differ in case alone, in a row and with
\* another header between them.
RepeatedGets ==
    {Request(GetText, <<"/", "a">>,
             HeaderLine(<<"A">>, <<"1">>) \o HeaderLine(<<"a">>, <<"2">>)
             \o HeaderLine(<<"A">>, <<"3">>), <<>>, <<>>),
     Request(GetText, <<"/", "a">>,
             HeaderLine(<<"a">>, <<"1">>) \o HeaderLine(<<"B">>, <<"x">>)
             \o HeaderLine(<<"A">>, <<"2">>), <<>>, <<>>)}

\* A trailer with the name of a header.
ClashPut ==
    Request(PutText, <<"/", "a">>,
            HeaderLine(<<"T">>, <<"a">>) \o HeaderLine(TransferEncodingName, ChunkedText),
            <<"1">> \o crlf \o <<"x">> \o crlf
            \o <<"0">> \o crlf \o HeaderLine(<<"T">>, <<"v">>) \o crlf,
            <<"x">>)

\* The body of ChunkedPut under both a Transfer-Encoding and a
\* Content-Length header.
BothPut(length) ==
    Request(PutText, <<"/", "a">>,
            HeaderLine(ContentLengthName, length)
            \o HeaderLine(TransferEncodingName, ChunkedText),
            <<"2">> \o crlf \o <<"x", "y">> \o crlf
            \o <<"1">> \o crlf \o <<"z">> \o crlf
            \o <<"0">> \o crlf \o crlf,
            <<"x", "y", "z">>)

\* The writes of a handler, one after the other.
RECURSIVE write_all(_, _)
write_all(m, parts) ==
    IF parts = <<>> THEN m ELSE write_all(write_some(m, Head(parts)), Tail(parts))

\* What the response encoder puts behind the header block when a handler
\* writes the parts and calls finish() without choosing a framing.
Encode(parts, trailers) ==
    LET Body(wire) == Drop(wire, FindEnd(wire, crlf2))
        Done(F) == Body((CHOOSE m \in F : TRUE).t.wire)
    IN  Done(finish(write_all(
            Running([NewHTTP EXCEPT !.requestMethod_ = GetText,
                                    !.responseStatus_ = 200,
                                    !.responseTrailers_ = trailers],
                    NewTCP),
            parts)))

\* dnData.
LongBody ==
    <<"h", "o", "w", SP, "n", "o", "w", SP, "b", "r", "o", "w", "n", SP, "c", "o", "w">>

\* Chunked PUTs whose bodies were framed by the response encoder.
EncodedPuts ==
    {Request(PutText, <<"/", "a">>, HeaderLine(TransferEncodingName, ChunkedText),
             Encode(c.parts, c.trailers), Flatten(c.parts)) :
        c \in {[parts |-> <<<<"h">>>>, trailers |-> EmptyHeaders],
                [parts |-> <<<<"h", "i">>>>, trailers |-> EmptyHeaders],
                [parts |-> <<<<"h">>, <<"i">>>>, trailers |-> EmptyHeaders],
                [parts |-> <<Take(LongBody, 10)>>, trailers |-> EmptyHeaders],
                [parts |-> <<Take(LongBody, 10), Drop(LongBody, 10)>>,
                 trailers |-> EmptyHeaders],
                [parts |-> <<LongBody>>,
                 trailers |-> SetHeader(EmptyHeaders, <<"T">>, <<"v">>)]}}

\* What a client may send first on a connection; a GET follows it.
ReadRequests ==
    {PlainGet, LengthPut, ChunkedPut, TrailerPut, ClashPut}
    \cup OtherVersionGets \cup NoRequestLineGets \cup FlawedRequests \cup RepeatedGets
    \cup {BothPut(length) : length \in {<<"2">>, <<"9">>, <<"x">>}}
    \cup EncodedPuts

\* The errors of chunky::errors.
DecoderErrors ==
    {"invalid_request_line", "invalid_request_header", "unsupported_http_version",
     "invalid_content_length", "invalid_chunk_length", "invalid_chunk_delimiter"}

\* GET /a of which the client sends five bytes before it closes.
CutGet == [PlainGet EXCEPT !.text = Take(@, 5)]

\* SimpleHTTPServer on connections whose first request decodes or does not
\* (a version the decoder does not support, no request line, a flawed
\* header or chunk), and on one whose second request is cut short.
InitServe ==
    InitWith({<<r, PlainGet>> :
                r \in {PlainGet, UnknownGet, LengthPut}
                      \cup OtherVersionGets \cup NoRequestLineGets \cup FlawedRequests}
             \cup {<<PlainGet, CutGet>>})

SpecServe == InitServe /\ [][Next]_vars

\* HTTP http(tcp): the exchange is constructed on an accepted connection.
\* hist.last: the latest read_some call, if any; hist.failed: the first
\* decoder error a read reported.
InitRead ==
    /\ \E r \in ReadRequests :
        /\ input = SessionText(<<r, PlainGet>>)
        /\ hist = NewHist(<<r, PlainGet>>) @@ [last |-> <<>>, failed |-> "ok"]
    /\ tcp = NewTCP
    /\ http = NewHTTP
    /\ conn = [NewConn EXCEPT !.pc = "direct", !.exchange = 1]
    /\ ops = NoOps

\* http.read_some(buffer of b bytes, error).  The call is recorded: the
\* size of its buffer, the exchange before it, the bytes not yet consumed
\* before it (those of streambuf_, then the stream's), what it reported,
\* the bytes it gave the caller, and the decoder error an earlier read
\* had reported.
RRead(b) ==
    /\ conn.pc = "direct"
    /\ \E m \in read_some(Running(http, tcp), b) :
        /\ http' = m.h
        /\ tcp' = m.t
        /\ hist' = [hist EXCEPT
                    !.body = @ \o m.out,
                    !.last = <<[b |-> b, pre |-> http,
                               src |-> http.streambuf_ \o Source(tcp),
                               ret |-> m.n, err |-> m.err, out |-> m.out,
                               after |-> hist.failed]>>,
                    !.failed = IF @ = "ok" /\ m.err \in DecoderErrors THEN m.err ELSE @]
    /\ UNCHANGED <<input, conn, ops>>

NextRead == \E b \in 0..MaxRead : RRead(b)

SpecRead == InitRead /\ [][NextRead]_vars

----------------------------------------------------------------------------
(* Stream<T> used on its own: put_back, read_some and async_read_some *)

\* How many calls the user of a stream makes, and the most bytes one
\* put_back call puts back.
MaxStreamCalls == 4

MaxPutBack == 2

\* A read_some that fills the buffer from the socket when readBuffer_
\* holds less than the buffer takes.
Stream_read_some_filling(t, b) ==
    {[t |-> StreamTake(t, Min(b, Len(Source(t)))), n |-> Min(b, Len(Source(t))),
      out |-> Take(Source(t), Min(b, Len(Source(t)))), err |-> "ok",
      stream |-> b > Len(t.readBuffer_)]}

\* Stream::read_some(buffers, error) into a buffer of b bytes: out of
\* readBuffer_ while it holds a byte, and otherwise whatever the socket's
\* read_some gives (some of the bytes it has, at least one when b > 0; end
\* of file when it has none).  stream tells whether stream_ was called.
Stream_read_some(t, b) ==
    LET Buffered(nBytes) ==
            {[t |-> [t EXCEPT !.readBuffer_ = Drop(@, nBytes)], n |-> nBytes,
              out |-> Take(t.readBuffer_, nBytes), err |-> "ok", stream |-> FALSE]}
        Socket(rest) ==
            IF b > 0 /\ rest = <<>>
            THEN {[t |-> t, n |-> 0, out |-> <<>>, err |-> "eof", stream |-> TRUE]}
            ELSE {[t |-> [t EXCEPT !.rd = @ + k], n |-> k, out |-> Take(rest, k),
                   err |-> "ok", stream |-> TRUE]
                  : k \in {j \in 0..Min(b, Len(rest)) : j > 0 \/ b = 0}}
    IN  IF t.readBuffer_ # <<>>
        THEN Buffered(Min(Len(t.readBuffer_), b))
        ELSE Socket(SocketRest(t))

\* A call on the stream, as the history keeps it: the stream before it,
\* what it was given and what it gave.
StreamCall(op, b, pre, r, bytes) ==
    [op |-> op, b |-> b, pre |-> pre, n |-> r.n, out |-> r.out, err |-> r.err,
     stream |-> r.stream, bytes |-> bytes]

NoRead == [n |-> 0, out |-> <<>>, err |-> "ok", stream |-> FALSE]

InitStream ==
    /\ input = SessionText(<<PlainGet>>)
    /\ hist = NewHist(<<PlainGet>>) @@ [pending |-> <<>>, handled |-> <<>>]
    /\ tcp = NewTCP /\ http = NewHTTP
    /\ conn = [NewConn EXCEPT !.pc = "stream"]
    /\ ops = NoOps

MayCall == conn.pc = "stream" /\ Len(hist.log) < MaxStreamCalls

\* put_back(buffers) with n bytes; the bytes of the call are told apart
\* from all others by their numbers.
SPutBack(n) ==
    LET Bytes(k) == [i \in 1..n |-> 100 * k + i]
        Put(bytes) ==
            /\ tcp' = put_back(tcp, bytes)
            /\ hist' = [hist EXCEPT !.log = Append(@, StreamCall("put_back", 0, tcp, NoRead, bytes))]
    IN  /\ MayCall
        /\ Put(Bytes(Len(hist.log) + 1))
        /\ UNCHANGED <<input, http, conn, ops>>

\* read_some(buffers, error) with a buffer of b bytes.
SRead(b) ==
    /\ MayCall
    /\ \E r \in Stream_read_some(tcp, b) :
        /\ tcp' = r.t
        /\ hist' = [hist EXCEPT !.log = Append(@, StreamCall("read_some", b, tcp, r, <<>>))]
    /\ UNCHANGED <<input, http, conn, ops>>

\* async_read_some(buffers, handler): with bytes in readBuffer_ the
\* synchronous read_some is called and the handler posted with what it
\* gave; otherwise the socket's async_read_some is dispatched on the strand.
SAsyncRead(b) ==
    LET Posted(r) ==
            /\ tcp' = r.t
            /\ hist' = [hist EXCEPT
                    !.log = Append(@, StreamCall("async_read_some", b, tcp, r, <<>>)),
                    !.pending = Append(@, [at |-> Len(hist.log) + 1, posted |-> TRUE])]
        Dispatched ==
            /\ tcp' = tcp
            /\ hist' = [hist EXCEPT
                    !.log = Append(@, StreamCall("async_read_some", b, tcp, NoRead, <<>>)),
                    !.pending = Append(@, [at |-> Len(hist.log) + 1, posted |-> FALSE])]
    IN  /\ MayCall
        /\ IF tcp.readBuffer_ # <<>>
           THEN \E r \in Stream_read_some(tcp, b) : Posted(r)
           ELSE Dispatched
        /\ UNCHANGED <<input, http, conn, ops>>

\* The io_service runs what was posted or dispatched first: the posted
\* handler, or the socket's read and its handler.
SComplete ==
    LET Socket(at, c) ==
            \E r \in Stream_read_some([tcp EXCEPT !.readBuffer_ = <<>>], c.b) :
                /\ tcp' = [r.t EXCEPT !.readBuffer_ = tcp.readBuffer_]
                /\ hist' = [hist EXCEPT
                        !.log[at] = StreamCall(c.op, c.b, c.pre, r, <<>>),
                        !.pending = Tail(@),
                        !.handled = Append(@, at)]
        Handler(at) ==
            /\ tcp' = tcp
            /\ hist' = [hist EXCEPT !.pending = Tail(@), !.handled = Append(@, at)]
        Run(p) == IF p.posted THEN Handler(p.at) ELSE Socket(p.at, hist.log[p.at])
    IN  /\ conn.pc = "stream"
        /\ hist.pending # <<>>
        /\ Run(Head(hist.pending))
        /\ UNCHANGED <<input, http, conn, ops>>

NextStream ==
    \/ \E n \in 1..MaxPutBack : SPutBack(n)
    \/ \E b \in 0..MaxRead : SRead(b)
    \/ \E b \in 0..MaxRead : SAsyncRead(b)
    \/ SComplete

SpecStream == InitStream /\ [][NextStream]_vars

----------------------------------------------------------------------------
(* SimpleHTTPServer: run() has been called, stop() is called at some point.
   The worker threads run the handlers of io_ in any order, those of
   strand_ one at a time and in the order they were dispatched. *)

\* How many clients connect, and how many requests each of them sends.
MaxConnections == 2
MaxRequests == 2

\* run(): running_ is set and accept(acceptor) dispatched on the strand.
\* Of a connection: where its exchange is (none: not connected; reading:
\* the null read of handle_connect is pending; handling: a handler holds
\* the HTTP; posted: the deleter has posted handle_connect; ended) and how
\* many requests its client has sent.
InitStop ==
    /\ input = <<>>
    /\ tcp = NewTCP /\ http = NewHTTP
    /\ conn = [pc |-> "server", running_ |-> TRUE,
               stop |-> "no",       \* stop(): no, called, join, done
               rearm |-> FALSE]     \* the accept handler saw running_ set
    /\ ops = [strand |-> <<"accept">>,
              accepting |-> "none", \* async_accept: none, pending, completed, aborted
              conns |-> [c \in 1..MaxConnections |-> [at |-> "none", requests |-> 0]]]
    /\ hist = NewHist(<<>>) @@ [exchanges |-> 0]

\* stop(): running_ = false.
StopCall ==
    /\ conn.pc = "server" /\ conn.stop = "no"
    /\ conn' = [conn EXCEPT !.running_ = FALSE, !.stop = "called"]
    /\ UNCHANGED <<input, tcp, http, ops, hist>>

\* stop(): acceptor.cancel() is dispatched on the strand, from a thread
\* that runs no handler.
StopCancel ==
    /\ conn.pc = "server" /\ conn.stop = "called"
    /\ ops' = [ops EXCEPT !.strand = Append(@, "cancel")]
    /\ conn' = [conn EXCEPT !.stop = "join"]
    /\ UNCHANGED <<input, tcp, http, hist>>

\* stop(): the threads are joined; io_.run() returns in each of them once
\* no handler is queued or running and no operation is pending.
StopJoin ==
    /\ conn.pc = "server" /\ conn.stop = "join"
    /\ ops.strand = <<>> /\ ops.accepting = "none" /\ ~conn.rearm
    /\ \A c \in 1..MaxConnections : ops.conns[c].at \in {"none", "ended"}
    /\ conn' = [conn EXCEPT !.stop = "done"]
    /\ UNCHANGED <<input, tcp, http, ops, hist>>

\* A thread runs the next handler of the strand: accept(acceptor) starts
\* async_accept; acceptor.cancel() completes a pending async_accept with
\* operation_aborted.
RunStrand ==
    /\ conn.pc = "server" /\ ops.strand # <<>>
    /\ ops' = [ops EXCEPT
            !.strand = Tail(@),
            !.accepting = IF Head(ops.strand) = "accept" THEN "pending"
                          ELSE IF @ = "pending" THEN "aborted" ELSE @]
    /\ UNCHANGED <<input, tcp, http, conn, hist>>

\* A client connects: the pending async_accept completes.
Connect ==
    /\ conn.pc = "server" /\ ops.accepting = "pending"
    /\ \E c \in 1..MaxConnections : ops.conns[c].at = "none"
    /\ ops' = [ops EXCEPT !.accepting = "completed"]
    /\ UNCHANGED <<input, tcp, http, conn, hist>>

\* The handler of accept with an error: logs and returns.
AcceptAborted ==
    /\ conn.pc = "server" /\ ops.accepting = "aborted"
    /\ ops' = [ops EXCEPT !.accepting = "none"]
    /\ UNCHANGED <<input, tcp, http, conn, hist>>

\* The handler of accept without error: handle_connect(error, tcp) starts
\* the first exchange of the connection, then running_ is read.
AcceptDone ==
    /\ conn.pc = "server" /\ ops.accepting = "completed"
    /\ LET c == Least({k \in 1..MaxConnections : ops.conns[k].at = "none"})
       IN  ops' = [ops EXCEPT !.accepting = "none", !.conns[c].at = "reading"]
    /\ conn' = [conn EXCEPT !.rearm = conn.running_]
    /\ hist' = [hist EXCEPT !.exchanges = @ + 1]
    /\ UNCHANGED <<input, tcp, http>>

\* The handler of accept, having read running_ as set: accept(acceptor) is
\* dispatched on the strand.
AcceptAgain ==
    /\ conn.pc = "server" /\ conn.rearm
    /\ ops' = [ops EXCEPT !.strand = Append(@, "accept")]
    /\ conn' = [conn EXCEPT !.rearm = FALSE]
    /\ UNCHANGED <<input, tcp, http, hist>>

\* The null read of handle_connect completes with a request: the handler
\* registered for it is given the HTTP.
RequestRead(c) ==
    /\ conn.pc = "server" /\ ops.conns[c].at = "reading"
    /\ ops.conns[c].requests < MaxRequests
    /\ ops' = [ops EXCEPT !.conns[c].at = "handling", !.conns[c].requests = @ + 1]
    /\ UNCHANGED <<input, tcp, http, conn, hist>>

\* The null read of handle_connect completes with an error: *status is
\* set, and the deleter posts nothing.
ReadError(c) ==
    /\ conn.pc = "server" /\ ops.conns[c].at = "reading"
    /\ ops' = [ops EXCEPT !.conns[c].at = "ended"]
    /\ UNCHANGED <<input, tcp, http, conn, hist>>

\* The last reference to the HTTP is dropped: the deleter posts
\* handle_connect if running_ is set.
HTTPDeleted(c) ==
    /\ conn.pc = "server" /\ ops.conns[c].at = "handling"
    /\ ops' = [ops EXCEPT !.conns[c].at = IF conn.running_ THEN "posted" ELSE "ended"]
    /\ UNCHANGED <<input, tcp, http, conn, hist>>

\* A thread runs the handle_connect the deleter posted: the next exchange
\* of the connection is started.
NextExchange(c) ==
    /\ conn.pc = "server" /\ ops.conns[c].at = "posted"
    /\ ops' = [ops EXCEPT !.conns[c].at = "reading"]
    /\ hist' = [hist EXCEPT !.exchanges = @ + 1]
    /\ UNCHANGED <<input, tcp, http, conn>>

NextStop ==
    \/ StopCall
    \/ StopCancel
    \/ StopJoin
    \/ RunStrand
    \/ Connect
    \/ AcceptAborted
    \/ AcceptDone
    \/ AcceptAgain
    \/ \E c \in 1..MaxConnections : RequestRead(c)
    \/ \E c \in 1..MaxConnections : ReadError(c)
    \/ \E c \in 1..MaxConnections : HTTPDeleted(c)
    \/ \E c \in 1..MaxConnections : NextExchange(c)

SpecStop == InitStop /\ [][NextStop]_vars

\* The pending async_accept completes with an error of the system (the
\* connection was aborted, no descriptor is left), stop() not involved.
AcceptError ==
    /\ conn.pc = "server" /\ ops.accepting = "pending"
    /\ ops' = [ops EXCEPT !.accepting = "aborted"]
    /\ UNCHANGED <<input, tcp, http, conn, hist>>

NextAccept == NextStop \/ AcceptError

SpecAccept == InitStop /\ [][NextAccept]_vars

----------------------------------------------------------------------------
(* HTTPTemplate::parse_query on its own *)

\* How many parameters a query has.
MaxParams == 3

\* parse_query(s): regex_search of ^([^=&]+)(=)?([^&]*)&? from the place
\* the last match ended, for as long as it matches; a match with the '='
\* puts the decoded value under the decoded key.  Query is a std::map: a
\* function from the keys to their values.
RECURSIVE parse_query_from(_, _)
parse_query_from(s, query) ==
    LET Put(key, value) ==
            [k \in DOMAIN query \cup {key} |-> IF k = key THEN value ELSE query[k]]
        Skip(rest) == IF rest # <<>> /\ Head(rest) = "&" THEN Tail(rest) ELSE rest
        Value(name, value, rest) ==
            parse_query_from(Skip(rest), Put(decode(name), decode(value)))
        Param(name, rest) ==
            IF name = <<>> THEN query
            ELSE IF rest # <<>> /\ Head(rest) = "="
            THEN Value(name, PrefixIn(Tail(rest), Range(AsciiOrder) \ {"&"}),
                       Drop(rest, 1 + Len(PrefixIn(Tail(rest), Range(AsciiOrder) \ {"&"}))))
            ELSE parse_query_from(Skip(rest), query)
        Name(name) == Param(name, Drop(s, Len(name)))
    IN  Name(PrefixIn(s, Range(AsciiOrder) \ {"=", "&"}))

parse_query(s) == parse_query_from(s, <<>>)

\* The parameters of the queries parsed: with a value, with another value
\* for the same name, with an empty value, without '=', with escapes in
\* name and value, and the empty parameter.
QueryParams ==
    {<<"a", "=", "1">>, <<"a", "=", "2">>, <<"b", "=">>, <<"c">>,
     <<"a", "+", "b", "%", "3", "f", "=", "%", "2", "6", "%", "3", "D">>,
     <<"d", "=", "x", "=", "y">>, <<>>}

\* Parameters with '&' between them.
RECURSIVE JoinParams(_)
JoinParams(ps) ==
    IF ps = <<>> THEN <<>>
    ELSE IF Len(ps) = 1 THEN ps[1]
    ELSE ps[1] \o <<"&">> \o JoinParams(Tail(ps))

InitQuery ==
    /\ \E n \in 0..MaxParams : \E ps \in [1..n -> QueryParams] :
        /\ input = JoinParams(ps)
        /\ hist = NewHist(<<>>) @@ [params |-> ps, query |-> <<>>]
    /\ tcp = NewTCP /\ http = NewHTTP
    /\ conn = [NewConn EXCEPT !.pc = "query"]
    /\ ops = NoOps

\* HTTP::parse_query(s) is called.
ParseQuery ==
    /\ conn.pc = "query"
    /\ hist' = [hist EXCEPT !.query = parse_query(input)]
    /\ conn' = [conn EXCEPT !.pc = "parsed"]
    /\ UNCHANGED <<input, tcp, http, ops>>

SpecQuery == InitQuery /\ [][ParseQuery]_vars

----------------------------------------------------------------------------
(* websocket.cpp: frames received from and sent on a stream.  A byte is a   *)
(* number in 0..255.  What is written to the stream is kept write by write: *)
(* the header bytes of the write and the size of the payload it carries.    *)

\* How many frames the server sends on a connection.
MaxSends == 2

\* a ^ b on bytes.
RECURSIVE Xor(_, _)
Xor(a, b) ==
    IF a = 0 THEN b
    ELSE IF b = 0 THEN a
    ELSE ((a + b) % 2) + 2 * Xor(a \div 2, b \div 2)

\* The number whose bytes, most significant first, are bs.
RECURSIVE BigEndian(_)
BigEndian(bs) ==
    IF bs = <<>> THEN 0 ELSE bs[Len(bs)] + 256 * BigEndian(Take(bs, Len(bs) - 1))

\* The k low bytes of n, most significant first: (n >> 8 (k - 1)) & 0xff
\* down to (n >> 0) & 0xff.
RECURSIVE Bytes(_, _)
Bytes(n, k) == IF k = 0 THEN <<>> ELSE Bytes(n \div 256, k - 1) \o <<n % 256>>

\* A frame as a client sends it: the first byte (FIN and opcode), whether
\* it is masked and with what key, the form of its length (in 7 bits, in
\* 16 after 126, in 64 after 127), and its payload.
Frame(first, masked, key, form, payload) ==
    [first |-> first, masked |-> masked, key |-> key, form |-> form, payload |-> payload]

FrameBytes(f) ==
    LET Length(n) ==
            IF f.form = 7 THEN <<n>>
            ELSE IF f.form = 16 THEN <<126>> \o Bytes(n, 2)
            ELSE <<127>> \o Bytes(n, 8)
        Marked(l) == IF f.masked THEN <<Head(l) + 128>> \o Tail(l) \o f.key ELSE l
        Payload ==
            [i \in DOMAIN f.payload |->
                IF f.masked THEN Xor(f.payload[i], f.key[((i - 1) % 4) + 1])
                ELSE f.payload[i]]
    IN  <<f.first>> \o Marked(Length(Len(f.payload))) \o Payload

\* The frames of the connections the model runs: text frames, masked and
\* not, with a payload longer than the key, with lengths in each form; a
\* ping; a close frame with a frame behind it.
FrameSessions ==
    LET Key == <<55, 250, 33, 61>>
        Hello == <<104, 101, 108, 108, 111>>
        Hi == <<104, 105>>
    IN  {<<Frame(129, TRUE, Key, 7, Hello)>>,
         <<Frame(129, FALSE, <<>>, 7, Hi), Frame(130, TRUE, Key, 7, Hi)>>,
         <<Frame(129, TRUE, Key, 16, Hello)>>,
         <<Frame(130, FALSE, <<>>, 16, Hi)>>,
         <<Frame(129, TRUE, Key, 64, Hi)>>,
         <<Frame(129, FALSE, <<>>, 64, Hi)>>,
         <<Frame(137, TRUE, Key, 7, <<>>), Frame(129, TRUE, Key, 7, Hi)>>,
         <<Frame(136, TRUE, Key, 7, <<>>), Frame(129, TRUE, Key, 7, Hi)>>,
         <<Frame(129, TRUE, Key, 7, Hi), Frame(136, TRUE, Key, 7, <<>>)>>}

\* WebSocket::receive_frame: three reads (two bytes, the length and the
\* mask, the payload), each of which fails with end of file when the
\* stream ends before it is complete, then the unmasking.  The header
\* array is value-initialized, so the mask of an unmasked frame is zero.
receive_frame(t) ==
    LET Failed(k) ==
            [t |-> [t EXCEPT !.rd = @ + k], err |-> "eof", type |-> 0, payload |-> <<>>]
        Payload(rest, type, mask, from, nPayloadBytes) ==
            IF Len(rest) < from + nPayloadBytes THEN Failed(Len(rest))
            ELSE [t |-> [t EXCEPT !.rd = @ + from + nPayloadBytes],
                  err |-> "ok",
                  type |-> type,
                  payload |-> [i \in 1..nPayloadBytes |->
                                  Xor(rest[from + i], mask[((i - 1) % 4) + 1])]]
        Sizes(rest, len7, nLengthBytes, nMaskBytes) ==
            IF Len(rest) < 2 + nLengthBytes + nMaskBytes THEN Failed(Len(rest))
            ELSE Payload(rest, rest[1],
                         IF nMaskBytes = 4
                         THEN SubSeq(rest, 3 + nLengthBytes, 6 + nLengthBytes)
                         ELSE <<0, 0, 0, 0>>,
                         2 + nLengthBytes + nMaskBytes,
                         IF nLengthBytes = 0 THEN len7
                         ELSE BigEndian(SubSeq(rest, 3, 2 + nLengthBytes)))
        Header(rest) ==
            IF Len(rest) < 2 THEN Failed(Len(rest))
            ELSE Sizes(rest, rest[2] % 128,
                       IF rest[2] % 128 = 126 THEN 2
                       ELSE IF rest[2] % 128 = 127 THEN 4 ELSE 0,
                       IF rest[2] >= 128 THEN 4 ELSE 0)
    IN  Header(Text(SocketRest(t)))

\* WebSocket::build_header(type, buffers) for buffers of bufferSize bytes.
build_header(type, bufferSize) ==
    IF bufferSize < 126 THEN <<type, bufferSize>>
    ELSE IF bufferSize < 65536 THEN <<type, 126>> \o Bytes(bufferSize, 2)
    ELSE <<type, 127>> \o Bytes(bufferSize, 8)

\* The sizes of the payloads the server sends.
SendSizes == {0, 125, 126, 65535, 65536}

InitFrames ==
    /\ \E frames \in FrameSessions :
        /\ input = Flatten([i \in DOMAIN frames |-> FrameBytes(frames[i])])
        /\ hist = NewHist(<<>>) @@ [frames |-> frames, delivered |-> <<>>,
                                    receiving |-> TRUE, sends |-> <<>>, pending |-> <<>>]
    /\ tcp = NewTCP /\ http = NewHTTP
    /\ conn = [NewConn EXCEPT !.pc = "websocket"]
    /\ ops = NoOps

\* WebSocket::receive_frames: the handler of its receive_frame.  On an
\* error the handler is told and the loop ends; otherwise the handler is
\* given the frame and receive_frames is called again.
receive_frames ==
    LET Received(r) ==
            /\ tcp' = r.t
            /\ hist' = [hist EXCEPT
                    !.receiving = r.err = "ok",
                    !.delivered = IF r.err = "ok"
                                  THEN Append(@, [type |-> r.type, payload |-> r.payload,
                                                  rd |-> r.t.rd])
                                  ELSE @]
    IN  /\ conn.pc = "websocket"
        /\ hist.receiving
        /\ Received(receive_frame(tcp))
        /\ UNCHANGED <<input, http, conn, ops>>

\* A write on the stream and the send it belongs to.
Write(id, header, size, last) == [id |-> id, header |-> header, size |-> size, last |-> last]

MaySend == conn.pc = "websocket" /\ Len(hist.sends) < MaxSends

\* WebSocket::send_frame(stream, type, buffers, handler): one async_write
\* of the header and the payload.
send_frame(type, n) ==
    /\ MaySend
    /\ hist' = [hist EXCEPT
            !.sends = Append(@, [type |-> type, size |-> n]),
            !.pending = Append(@, Write(Len(hist.sends) + 1, build_header(type, n), n, TRUE))]
    /\ UNCHANGED <<input, tcp, http, conn, ops>>

\* WebSocket<T>::async_send(meta, buffers, handler): an async_write of the
\* header, whose handler starts the async_write of the payload.
async_send(meta, n) ==
    /\ MaySend
    /\ hist' = [hist EXCEPT
            !.sends = Append(@, [type |-> meta, size |-> n]),
            !.pending = Append(@, Write(Len(hist.sends) + 1, build_header(meta, n), 0, FALSE))]
    /\ UNCHANGED <<input, tcp, http, conn, ops>>

\* The write submitted first completes: its bytes are on the wire and its
\* handler runs.
WriteDone ==
    LET Left(w) ==
            IF w.last THEN Tail(hist.pending)
            ELSE Append(Tail(hist.pending),
                        Write(w.id, <<>>, hist.sends[w.id].size, TRUE))
        Done(w) ==
            /\ tcp' = [tcp EXCEPT !.wire = Append(@, w)]
            /\ hist' = [hist EXCEPT !.pending = Left(w)]
    IN  /\ conn.pc = "websocket"
        /\ hist.pending # <<>>
        /\ Done(Head(hist.pending))
        /\ UNCHANGED <<input, http, conn, ops>>

NextFrames ==
    \/ receive_frames
    \/ \E n \in SendSizes : send_frame(129, n)
    \/ \E n \in SendSizes : async_send(130, n)
    \/ WriteDone

SpecFrames == InitFrames /\ [][NextFrames]_vars

----------------------------------------------------------------------------
(* What an HTTP/1.1 client makes of the bytes the server sent *)

\* The lines of a header block.
RECURSIVE Lines(_)
Lines(s) ==
    LET Cut(e) == IF e = 0 THEN <<s>> ELSE <<Take(s, e - 2)>> \o Lines(Drop(s, e))
    IN  Cut(FindEnd(s, crlf))

\* The value of a string made of digits alone; -1 for any other string.
Number(s, base, digit) ==
    IF s # <<>> /\ Range(s) \subseteq DOMAIN digit THEN ValueOf(s, base, digit) ELSE -1

\* The status code of a status line; -1 when it is none.
StatusOf(line) ==
    IF Len(line) >= 13 /\ Take(line, 9) = HTTP11 \o <<SP>> /\ line[13] = SP
    THEN Number(SubSeq(line, 10, 12), 10, DecDigit)
    ELSE -1

\* The values the header lines give the field name.
FieldValues(lines, name) ==
    {TrimLeft(Drop(lines[i], Len(name) + 1)) :
        i \in {j \in 2..Len(lines) :
                /\ Len(lines[j]) > Len(name)
                /\ UpperCase(Take(lines[j], Len(name) + 1)) = UpperCase(name \o <<":">>)}}

Unreadable == [ok |-> FALSE, status |-> 0, body |-> <<>>, rest |-> <<>>]

\* A chunked body at the head of s: its data and what follows it.
RECURSIVE ChunkedBody(_)
ChunkedBody(s) ==
    LET More(data, r) == [r EXCEPT !.body = data \o @]
        Last(from, f) ==
            IF f = 0 THEN Unreadable
            ELSE [Unreadable EXCEPT !.ok = TRUE, !.rest = Drop(s, from + f)]
        Chunk(e, size) ==
            IF e = 0 \/ size < 0 THEN Unreadable
            ELSE IF size = 0 THEN Last(e - 2, FindEnd(Drop(s, e - 2), crlf2))
            ELSE IF Len(s) >= e + size + 2 /\ SubSeq(s, e + size + 1, e + size + 2) = crlf
            THEN More(SubSeq(s, e + 1, e + size), ChunkedBody(Drop(s, e + size + 2)))
            ELSE Unreadable
        Line(e) == Chunk(e, IF e = 0 THEN -1 ELSE Number(Take(s, e - 2), 16, HexDigit))
    IN  Line(FindEnd(s, crlf))

\* The response at the head of s: its status, its body and what follows it.
Response(s) ==
    LET Sized(status, rest, n) ==
            IF n < 0 \/ Len(rest) < n THEN Unreadable
            ELSE [ok |-> TRUE, status |-> status, body |-> Take(rest, n),
                  rest |-> Drop(rest, n)]
        Framed(status, lines, rest) ==
            IF status < 0 THEN Unreadable
            ELSE IF status < 200 \/ status \in {204, 304} THEN Sized(status, rest, 0)
            ELSE IF ChunkedText \in FieldValues(lines, TransferEncodingName)
            THEN [ChunkedBody(rest) EXCEPT !.status = status]
            ELSE IF Cardinality(FieldValues(lines, ContentLengthName)) = 1
            THEN Sized(status, rest,
                       Number(CHOOSE v \in FieldValues(lines, ContentLengthName) : TRUE,
                              10, DecDigit))
            ELSE Unreadable
        Block(lines, rest) == Framed(StatusOf(lines[1]), lines, rest)
        Headed(e) == IF e = 0 THEN Unreadable ELSE Block(Lines(Take(s, e - 4)), Drop(s, e))
    IN  Headed(FindEnd(s, crlf2))

\* The final responses a client reads from s, read to the last byte; ok is
\* FALSE when s is not a sequence of complete responses.
RECURSIVE Responses(_)
Responses(s) ==
    LET More(r, rs) ==
            [ok |-> rs.ok,
             finals |-> IF r.status >= 200
                        THEN <<[status |-> r.status, body |-> r.body]>> \o rs.finals
                        ELSE rs.finals]
        Then(r) ==
            IF ~r.ok THEN [ok |-> FALSE, finals |-> <<>>] ELSE More(r, Responses(r.rest))
    IN  IF s = <<>> THEN [ok |-> TRUE, finals |-> <<>>] ELSE Then(Response(s))

----------------------------------------------------------------------------
(* Claims about the connection *)

\* The positions from a + 1 to the end of the input.
After(a) == [i \in 1..(Len(input) - a) |-> a + i]

\* The position where the request of the current exchange begins, less one.
Begin == IF conn.exchange <= 1 THEN 0 ELSE hist.ends[conn.exchange - 1]

\* The final finish of the current exchange has completed without error.
Finished == conn.pc = "finished" /\ hist.finalDone = "ok"

\* C1: after finish(), or the completion of async_finish, with a status of
\* 200 or more, streambuf_ is empty and what the Stream delivers next
\* (readBuffer_, then the socket) is exactly the bytes after the end of the
\* exchange's request, whatever the handler read and whatever was over-read.
Drained ==
    Finished
    => /\ http.responseStatus_ >= 200
       /\ http.streambuf_ = <<>>
       /\ Source(tcp) = After(hist.ends[conn.exchange])

\* C1 witness: the first exchange of a session has finished, its handler
\* had left part of the body unread, and over-read bytes are back in
\* readBuffer_.
DrainedWitness ==
    /\ Finished
    /\ conn.exchange = 1
    /\ Len(hist.body) < Len(hist.session[1].body)
    /\ tcp.readBuffer_ # <<>>

\* C2: the decoder of each exchange starts at the first byte of its request
\* (streambuf_ empty, the Stream at the end of the request before), it
\* decodes that request and gives the handler bytes of that request's body
\* alone, and when the exchange has finished the client has read one
\* complete final response for each request so far, in request order.
KeepAlive ==
    /\ conn.pc = "reading"
       => /\ http.streambuf_ = <<>>
          /\ Source(tcp) = After(Begin)
    /\ conn.pc \in {"handler", "respond", "default", "finishing", "finished"}
       => /\ http.requestMethod_ = hist.session[conn.exchange].method
          /\ http.requestPath_ = hist.session[conn.exchange].path
          /\ Text(hist.body) = Take(hist.session[conn.exchange].body, Len(hist.body))
    /\ Finished
       => /\ Responses(tcp.wire).ok
          /\ Responses(tcp.wire).finals = hist.replies
          /\ Len(hist.replies) = conn.exchange
          /\ \A i \in 1..conn.exchange :
                hist.replies[i].status =
                    IF Registered(hist.session[i].path) THEN 200 ELSE 404

\* C2 witness: the second exchange has finished, and its request had been
\* read, in part at least, by the first exchange and put back.
KeepAliveWitness ==
    /\ Finished
    /\ conn.exchange = 2
    /\ hist.carried
    /\ Len(Responses(tcp.wire).finals) = 2

\* C3: an exchange is created only when the exchange before it on the
\* connection has completed a final finish() or async_finish.
FinishBeforeNext == hist.prevFinished

\* C4: the bytes of an asynchronous write submitted earlier all reach the
\* socket before any byte of one submitted later: the socket takes the
\* bytes of the submissions in increasing order, no submission twice.
WritesInOrder ==
    \A i, j \in DOMAIN hist.order : i < j => hist.order[i] < hist.order[j]

\* C5: async_finish's FinishHandler is invoked at most once, not before
\* the drain (which a status of 200 or more starts) and the final write
\* have both completed, and at once when they have.
CallbackOnce ==
    LET writing == \E i \in DOMAIN ops.writes : ops.writes[i].role = "final"
        draining == ops.discard = "pending"
    IN  /\ ops.calls <= 1
        /\ ops.calls = 1 => ~writing /\ ~draining
        /\ conn.pc = "finishing" => ops.calls = 0 /\ (writing \/ draining)
        /\ http.responseStatus_ >= 200 /\ ops.calls = 1 => ops.discard = "done"

\* C5 witness: the FinishHandler has been invoked after the final write
\* completed first and the drain last.
CallbackOnceWitness ==
    /\ ops.calls = 1
    /\ ops.done = <<"write", "discard">>

\* C37: on a request that is framed well and has arrived whole, whatever
\* the handler has read of its body, a finish() under a status of 200 or
\* more returns without error; an async_finish leads to the call of its
\* handler: while it has not, the drain or the terminal write is in flight, each
\* read of the drain succeeds and consumes at least one byte, and each
\* step of the terminal write shortens what it has to write or completes
\* it; and after either finish requestBytes_ is 0, no chunk is pending and
\* the bytes not yet consumed are those behind the request, the trailer
\* block consumed.
DrainEnds ==
    /\ [](LET AtEnd(h, t) ==
                /\ h.requestBytes_ = 0
                /\ ~h.requestChunksPending_
                /\ h.streambuf_ \o Source(t) = After(hist.ends[conn.exchange])
              Left(m) == Len(m.h.streambuf_ \o Source(m.t))
              Reads(F) ==
                /\ F # {}
                /\ \A m \in F : m.err = "ok" /\ Left(m) < Len(http.streambuf_ \o Source(tcp))
          IN  /\ conn.pc = "respond"
                 => /\ finish(Running(http, tcp)) # {}
                    /\ \A m \in finish(Running(http, tcp)) :
                            m.err = "ok" /\ AtEnd(m.h, m.t)
              /\ conn.pc = "finished" /\ http.responseStatus_ >= 200 => AtEnd(http, tcp)
              /\ conn.pc = "finishing" => ops.discard = "pending" \/ ops.writes # <<>>
              /\ ops.discard = "pending"
                 => Reads(composed_read(Running(http, tcp),
                                        Min(http.requestBytes_, MaxDiscardBufferSize))))
    /\ [][conn.pc = "finishing" /\ ops'.writes # ops.writes
          => \/ ops'.writes = <<>>
             \/ Len(ops'.writes[1].rest) < Len(ops.writes[1].rest)]_vars
    /\ (conn.pc = "finishing") ~> (conn.pc = "finished")

\* C37 witness: an async_finish on a chunked request with a trailer, of
\* whose body the handler had read nothing, has called its handler, the
\* drain having completed after the terminal write.
DrainEndsWitness ==
    /\ conn.pc = "finished"
    /\ http.responseStatus_ >= 200
    /\ ops.done = <<"write", "discard">>
    /\ hist.body = <<>>
    /\ HasHeader(http.requestHeaders_, <<"t">>)

\* C36: once the drain or the terminal write of an async_finish has
\* failed, the error_code kept for the FinishHandler tells a failure
\* whichever of the two completes after it, and the FinishHandler is
\* given a failure.
FailureKept ==
    [][/\ conn.pc = "finishing"
       /\ hist'.submitted = hist.submitted
       /\ ops.result # "ok"
       => /\ ops'.result # "ok"
          /\ hist'.finalDone # "ok"]_vars

\* The bytes the step put on the wire.
Flushed == Drop(tcp'.wire, Len(tcp.wire))

\* The step is a finish() under an informational status.
InterimStep == hist'.interims = hist.interims + 1

\* C11: a finish() under a status of 100..199 leaves requestBytes_ and
\* requestChunksPending_ as they were, leaves every request byte not yet
\* consumed (those of streambuf_ included) to be read, and puts on the wire
\* a status line and a header block without Content-Length, and nothing
\* else; and the exchange that then finishes under a status of 200 or more
\* has sent the client a complete final response.
InterimKeepsBody ==
    /\ [](hist.interims > 0 /\ conn.pc \in {"handler", "respond"}
            => Text(hist.body) = Take(hist.session[conn.exchange].body, Len(hist.body)))
    /\ [](Finished /\ hist.interims > 0
            => /\ Responses(tcp.wire).ok
               /\ Responses(tcp.wire).finals = hist.replies
               /\ Len(hist.replies) = 1
               /\ hist.replies[1].status >= 200)
    /\ [][InterimStep
            => /\ http'.requestBytes_ = http.requestBytes_
               /\ http'.requestChunksPending_ = http.requestChunksPending_
               /\ http'.streambuf_ \o Source(tcp') = http.streambuf_ \o Source(tcp)
               /\ tcp'.wire = tcp.wire \o Flushed
               /\ FindEnd(Flushed, crlf2) = Len(Flushed)
               /\ StatusOf(Lines(Flushed)[1]) \in 100..199
               /\ FieldValues(Lines(Flushed), ContentLengthName) = {}]_vars

\* C11 witness: an exchange has answered 100 Continue while body bytes
\* were unread, some of them over-read and now back in readBuffer_.
InterimKeepsBodyWitness ==
    /\ conn.pc = "handler"
    /\ hist.interims = 1
    /\ http.requestBytes_ > 0
    /\ tcp.readBuffer_ # <<>>

\* Where the text t occurs in s.
Occurrences(s, t) ==
    {i \in 1..(Len(s) - Len(t) + 1) : SubSeq(s, i, i + Len(t) - 1) = t}

ContinueLine ==
    HTTP11 \o <<SP, "1", "0", "0", SP, "C", "o", "n", "t", "i", "n", "u", "e">> \o crlf

OKLine == HTTP11 \o <<SP, "2", "0", "0", SP, "O", "K">> \o crlf

\* The handler answered 100 Continue once, then wrote a body under status
\* 200 and finished.
Continued == Finished /\ hist.interims = 1 /\ hist.sent > 0

\* C12 as stated: after status 100 and finish(), then status 200, a body
\* and finish(), the wire holds the line HTTP/1.1 100 Continue with the
\* blank line right behind it and, later, exactly one HTTP/1.1 200 OK
\* response.
ContinueBare ==
    Continued
    => LET Bare(at, oks) ==
                /\ at # {}
                /\ Cardinality(oks) = 1
                /\ \A i \in oks : i > Least(at)
       IN  Bare(Occurrences(tcp.wire, ContinueLine \o crlf),
                Occurrences(tcp.wire, OKLine))

\* C12 amended: the wire begins with the line HTTP/1.1 100 Continue, the
\* header lines of the interim response (its Date header) and a blank
\* line; right behind it begins the only HTTP/1.1 200 OK response, which
\* is complete and carries the body the handler wrote.
ContinueThenFinal ==
    Continued
    => LET Split(e, oks) ==
                /\ Take(tcp.wire, Len(ContinueLine)) = ContinueLine
                /\ e > Len(ContinueLine) + 2
                /\ \A i \in 2..Len(Lines(Take(tcp.wire, e - 4))) :
                        ":" \in Range(Lines(Take(tcp.wire, e - 4))[i])
                /\ oks = {e + 1}
                /\ Responses(Drop(tcp.wire, e)).ok
                /\ Responses(Drop(tcp.wire, e)).finals
                    = <<[status |-> 200, body |-> Take(ResponseBody, hist.sent)]>>
       IN  Split(FindEnd(tcp.wire, crlf2), Occurrences(tcp.wire, OKLine))

\* C12 witness: the scenario has run to its end, the handler having read
\* the whole request body after the interim response and written its
\* whole body.
ContinueThenFinalWitness ==
    /\ Continued
    /\ hist.sent = Len(ResponseBody)
    /\ Text(hist.body) = hist.session[1].body
    /\ hist.body # <<>>

----------------------------------------------------------------------------
(* Claims about the stream *)

\* A step that is a call of read_some or async_read_some.
ReadCalled ==
    /\ Len(hist'.log) = Len(hist.log) + 1
    /\ hist'.log[Len(hist'.log)].op \in {"read_some", "async_read_some"}

\* C21: a read_some or async_read_some called with a buffer of b bytes
\* while readBuffer_ holds a byte gives the first min(b, size of
\* readBuffer_) bytes of readBuffer_, removes just these from it, and does
\* not call the socket; the handler of such an async_read_some is posted,
\* and running it does not touch the stream.
ServedFromPutBack ==
    [][LET Served(c, nBytes) ==
               /\ c.pre = tcp
               /\ c.n = nBytes /\ c.err = "ok"
               /\ c.out = Take(tcp.readBuffer_, nBytes)
               /\ ~c.stream
               /\ tcp'.readBuffer_ = Drop(tcp.readBuffer_, nBytes)
               /\ tcp'.rd = tcp.rd
               /\ c.op = "async_read_some"
                  => hist'.pending
                     = Append(hist.pending, [at |-> Len(hist'.log), posted |-> TRUE])
           Read(c) == Served(c, Min(c.b, Len(tcp.readBuffer_)))
           Posted == tcp' = tcp /\ hist'.log = hist.log
       IN  /\ ReadCalled /\ tcp.readBuffer_ # <<>> => Read(hist'.log[Len(hist'.log)])
           /\ /\ hist.pending # <<>>
              /\ Head(hist.pending).posted
              /\ hist'.pending = Tail(hist.pending)
              => Posted]_vars

\* C21 witness: a read into a buffer of two bytes was given the one byte
\* readBuffer_ held, with bytes in the socket, and an async_read_some was
\* served likewise before it.
ServedFromPutBackWitness ==
    /\ conn.pc = "stream"
    /\ \E i, j \in DOMAIN hist.log :
        /\ i < j
        /\ hist.log[i].op = "async_read_some" /\ hist.log[i].pre.readBuffer_ # <<>>
        /\ hist.log[i].n = 1 /\ i \in Range(hist.handled)
        /\ hist.log[j].op = "read_some" /\ hist.log[j].b = 2
        /\ Len(hist.log[j].pre.readBuffer_) = 1 /\ hist.log[j].n = 1
    /\ tcp.rd = 0

\* C22: when put_back calls are followed by reads, the bytes the reads
\* give of those put back are the first of them in the order in which
\* they were put back: the bytes of an earlier call before those of a
\* later one, and those of one call in the order given.
PutBackFifo ==
    LET PutBack(c) == c.op = "put_back"
        Given(c) == c.out
        Put(c) == c.bytes
        WasPutBack(x) == x >= 100
        All(F(_)) == Flatten([i \in DOMAIN hist.log |-> F(hist.log[i])])
        InOrder(read, put) == Len(read) <= Len(put) /\ read = Take(put, Len(read))
    IN  /\ conn.pc = "stream"
        /\ \A i, j \in DOMAIN hist.log :
            PutBack(hist.log[j]) /\ ~PutBack(hist.log[i]) => j < i
        => InOrder(SelectSeq(All(Given), WasPutBack), All(Put))

----------------------------------------------------------------------------
(* Claims about SimpleHTTPServer::stop *)

\* C29: in whatever order the steps of stop() and those of the handlers
\* on the worker threads are taken, once stop() has been called no step
\* starts an exchange on a connection, and once the cancel it dispatched
\* has run no step leaves an accept operation pending.
StopStops ==
    [][/\ conn.stop # "no" => hist'.exchanges = hist.exchanges
       /\ conn.stop = "join" /\ "cancel" \notin Range(ops.strand) =>
            ops'.accepting # "pending"]_vars

\* C40: as long as stop() has not been called the acceptor is never left
\* without an accept: an async_accept is pending, or has completed and its
\* handler is about to run, or the handler is about to dispatch the next
\* accept, or that accept is queued on the strand.
AcceptKept ==
    conn.stop = "no"
    => \/ ops.accepting \in {"pending", "completed", "aborted"}
       \/ conn.rearm
       \/ "accept" \in Range(ops.strand)

----------------------------------------------------------------------------
(* Claims about parse_query *)

\* What the parameters ps add to the mapping query: each parameter with
\* '=' its decoded name and value, in the place of an earlier value of
\* the name; a parameter without '=' nothing.
RECURSIVE Mapped(_, _)
Mapped(ps, query) ==
    LET Put(key, value) ==
            [k \in DOMAIN query \cup {key} |-> IF k = key THEN value ELSE query[k]]
        Pair(p, eq) == Put(decode(Take(p, eq - 1)), decode(Drop(p, eq)))
        Param(p, eq) == IF eq = 0 THEN query ELSE Pair(p, eq)
    IN  IF ps = <<>> THEN query
        ELSE Mapped(Tail(ps), Param(Head(ps), FindEnd(Head(ps), <<"=">>)))

\* C28: the mapping parse_query gives for a query has, for each of its
\* name=value parameters, the decoded value under the decoded name (the
\* value of the last of them for a name given twice, the empty string for
\* name=), and nothing else: the empty query gives the empty mapping, and
\* a parameter without '=' changes nothing for the others.
QueryMapping == conn.pc = "parsed" => hist.query = Mapped(hist.params, <<>>)

----------------------------------------------------------------------------
(* Claims about the WebSocket frames *)

\* Where the i-th of the frames sent ends in the input.
FrameEnd(i) == Len(Flatten([k \in 1..i |-> FrameBytes(hist.frames[k])]))

\* C24: each frame delivered has the length its length field gives (the 7
\* bits, or the 2 bytes after 126, or the 8 bytes after 127), and its key
\* and payload were read from the bytes behind that field, so that the
\* frame read ends where the frame sent ends; every frame sent is
\* delivered before the stream's end is reported.
ExtendedLength ==
    LET Read(i, d) ==
            /\ i <= Len(hist.frames)
            /\ Len(d.payload) = Len(hist.frames[i].payload)
            /\ d.rd = FrameEnd(i)
    IN  conn.pc = "websocket"
        => /\ \A i \in DOMAIN hist.delivered : Read(i, hist.delivered[i])
           /\ ~hist.receiving => Len(hist.delivered) = Len(hist.frames)

\* C25: a frame sent masked, its payload P XOR-ed with the key cycled
\* modulo 4, is delivered with the payload P, and a frame sent unmasked
\* with the payload it was sent with.
Unmasked ==
    LET Delivered(i, d) ==
            /\ i <= Len(hist.frames)
            /\ d.type = hist.frames[i].first
            /\ d.payload = hist.frames[i].payload
    IN  conn.pc = "websocket"
        => \A i \in DOMAIN hist.delivered : Delivered(i, hist.delivered[i])

\* C26: the receive loop ends with the close frame: a close frame (opcode
\* 8) is the last frame delivered, and once it was given to the handler
\* no read of a frame is under way.
StopsOnClose ==
    LET Close(d) == d.type % 16 = 8
    IN  conn.pc = "websocket"
        => \A i \in DOMAIN hist.delivered :
            Close(hist.delivered[i]) => i = Len(hist.delivered) /\ ~hist.receiving

\* C27: each frame sent reaches the stream as one write of header and
\* payload, the writes following the sends; the header begins with the
\* byte given, has the MASK bit clear, and gives the size in the shortest
\* form: in 7 bits below 126, in 2 bytes after 126 below 65536, in 8 bytes
\* after 127 from there on.
SingleWrite ==
    LET Shortest(h, n) ==
            IF n < 126 THEN Len(h) = 2 /\ h[2] = n
            ELSE IF n < 65536 THEN Len(h) = 4 /\ h[2] = 126 /\ BigEndian(SubSeq(h, 3, 4)) = n
            ELSE Len(h) = 10 /\ h[2] = 127 /\ BigEndian(SubSeq(h, 3, 10)) = n
        Whole(w, sent) ==
            /\ w.last
            /\ w.size = sent.size
            /\ w.header # <<>>
            /\ w.header[1] = sent.type
            /\ w.header[2] < 128
            /\ Shortest(w.header, sent.size)
    IN  conn.pc = "websocket"
        => \A i \in DOMAIN tcp.wire : Whole(tcp.wire[i], hist.sends[tcp.wire[i].id])

----------------------------------------------------------------------------
(* Claims about the request decoder *)

\* The first request of the connection, as the client sent it.
SentFirst == Take(input, hist.ends[1])

\* The header block of the first request: where it ends, and its lines.
HeadEnd == FindEnd(SentFirst, crlf2)

SentLines == Lines(Take(SentFirst, HeadEnd - 4))

\* The client framed the body in chunks.
SentChunked == \E v \in FieldValues(SentLines, TransferEncodingName) : v # IdentityText

\* The chunks of the chunked body s, each as the input positions of its
\* bytes, and the trailer block behind them; at is the position before s.
RECURSIVE ChunkRuns(_, _)
ChunkRuns(s, at) ==
    LET None == [ok |-> FALSE, runs |-> <<>>, trailers |-> <<>>]
        More(run, r) == [r EXCEPT !.runs = <<run>> \o @]
        Chunk(e, size) ==
            IF e = 0 \/ size < 0 THEN None
            ELSE IF size = 0
            THEN [ok |-> FindEnd(Drop(s, e - 2), crlf2) > 0, runs |-> <<>>,
                  trailers |-> Drop(s, e)]
            ELSE IF Len(s) >= e + size + 2 /\ SubSeq(s, e + size + 1, e + size + 2) = crlf
            THEN More([i \in 1..size |-> at + e + i],
                      ChunkRuns(Drop(s, e + size + 2), at + e + size + 2))
            ELSE None
        Line(e) == Chunk(e, IF e = 0 THEN -1 ELSE Number(Take(s, e - 2), 16, HexDigit))
    IN  Line(FindEnd(s, crlf))

\* The body of the first request as its framing tells it: one run of
\* positions for a body under Content-Length, one for each chunk
\* otherwise; ok is FALSE when the framing cannot be read.
BodyRuns ==
    LET Sized(n) ==
            [ok |-> n >= 0 /\ HeadEnd + n = hist.ends[1],
             runs |-> IF n > 0 THEN <<[i \in 1..n |-> HeadEnd + i]>> ELSE <<>>,
             trailers |-> <<>>]
        Lengths(L) ==
            IF L = {} THEN Sized(0)
            ELSE IF Cardinality(L) = 1
            THEN Sized(Number(CHOOSE v \in L : TRUE, 10, DecDigit))
            ELSE [ok |-> FALSE, runs |-> <<>>, trailers |-> <<>>]
    IN  IF HeadEnd = 0 THEN [ok |-> FALSE, runs |-> <<>>, trailers |-> <<>>]
        ELSE IF SentChunked THEN ChunkRuns(Drop(SentFirst, HeadEnd), HeadEnd)
        ELSE Lengths(FieldValues(SentLines, ContentLengthName))

\* Of the run that holds the body's byte d + 1, the bytes from that one
\* on; 0 when the body has no such byte.
RestOfRun(runs, d) ==
    LET Ends == {Len(Flatten(SubSeq(runs, 1, k))) : k \in DOMAIN runs}
    IN  IF \E e \in Ends : e > d THEN Least({e \in Ends : e > d}) - d ELSE 0

\* The reads so far met no error but the end of the body.
ReadWell ==
    /\ hist.last # <<>>
    /\ hist.failed = "ok"
    /\ hist.last[1].err \in {"ok", "eof"}

\* C14: a read_some into a buffer of b bytes on a request that is framed
\* well returns the bytes it reports, no more than b and no more than
\* requestBytes_; they are the next bytes of the body in order and lie in
\* one chunk; they are the first of the bytes not yet consumed, those of
\* streambuf_ before those of the stream; requestBytes_ goes down by the
\* count returned (and is, after the read, what is left of the chunk the
\* next body byte lies in); and the bytes left unconsumed begin at the
\* next body byte, or behind the request when the body is exhausted.
ReadBound ==
    LET Bound(c, body, runs, d) ==
            /\ c.ret = Len(c.out)
            /\ c.ret <= c.b
            /\ d <= Len(body)
            /\ hist.body = Take(body, d)
            /\ c.ret > 0 => RestOfRun(runs, d - c.ret) >= c.ret
            /\ c.pre.requestMethod_ # <<>>
               => /\ c.ret <= Min(c.b, c.pre.requestBytes_)
                  /\ c.out = Take(c.src, c.ret)
                  /\ \/ http.requestBytes_ = c.pre.requestBytes_ - c.ret
                     \/ /\ c.b > 0
                        /\ c.pre.requestChunksPending_
                        /\ c.pre.requestBytes_ = c.ret
            /\ http.requestBytes_ = RestOfRun(runs, d)
            /\ http.streambuf_ \o Source(tcp)
               = After(IF d < Len(body) THEN body[d + 1] - 1 ELSE hist.ends[1])
    IN  BodyRuns.ok /\ ReadWell
        => Bound(hist.last[1], Flatten(BodyRuns.runs), BodyRuns.runs, Len(hist.body))

\* C14 witness: a read into a buffer of two bytes was given the one byte
\* left of a chunk, out of streambuf_, with the next chunk behind it.
ReadBoundWitness ==
    /\ BodyRuns.ok /\ ReadWell
    /\ hist.last[1].b = 2
    /\ hist.last[1].ret = 1
    /\ hist.last[1].pre.streambuf_ # <<>>
    /\ http.requestBytes_ > 0
    /\ Len(hist.body) > 1

\* The bytes not yet consumed: those of streambuf_, then the stream's.
Unconsumed == http.streambuf_ \o Source(tcp)

\* The same exchange before and after a step, its request decoded.
SameExchange ==
    /\ conn'.exchange = conn.exchange
    /\ http.requestMethod_ # <<>>
    /\ http'.requestMethod_ # <<>>

\* The fields of the exchange and of the stream that belong to the
\* decoder, and those that belong to the encoder.
RequestSide(h, t) ==
    <<h.requestMethod_, h.requestVersion_, h.requestResource_, h.requestHeaders_,
      h.requestPath_, h.requestFragment_, h.requestBytes_, h.requestChunksPending_,
      h.streambuf_, t.readBuffer_, t.rd>>

ResponseSide(h, t) ==
    <<h.responseStatus_, h.responseHeaders_, h.responseTrailers_, h.responseBytes_,
      h.responseChunked_, t.wire>>

\* C34: a step of the read side (a read_some of the handler, a read of
\* the drain with the put-back that ends it) leaves the response status,
\* headers, trailers, responseBytes_, responseChunked_ and the wire as
\* they were; a step of the write side (a write_some of the handler, a
\* step of an asynchronous write with its completion) leaves the request
\* metadata, requestBytes_, requestChunksPending_, streambuf_ and the
\* put-back buffer as they were; and when a handler is about to finish
\* under a status of 200 or more, the drain followed by the terminal write
\* leaves the same exchange and stream as the terminal write followed by
\* the drain.
ReadWriteApart ==
    /\ [][LET Same(side(_, _)) == side(http', tcp') = side(http, tcp)
              HandlerStep ==
                /\ conn.pc \in {"handler", "respond"}
                /\ conn' = conn
                /\ ops' = ops
                /\ hist'.interims = hist.interims
              DrainStep ==
                /\ ops.discard = "pending"
                /\ ops'.writes = ops.writes
              WriteStepOnly ==
                /\ ops'.writes # ops.writes
                /\ ops.writes # <<>>
                /\ hist'.submitted = hist.submitted
          IN  /\ HandlerStep /\ hist'.sent = hist.sent => Same(ResponseSide)
              /\ DrainStep => Same(ResponseSide)
              /\ HandlerStep /\ hist'.sent > hist.sent => Same(RequestSide)
              /\ WriteStepOnly => Same(RequestSide)]_vars
    /\ [](LET Ends(F) == {<<m.h, m.t>> : m \in {x \in F : x.err = "ok"}}
              Emptied(m) == {putback_buffer(d) : d \in sync_discard(m)}
              Final(m) == write_some(m, <<>>)
          IN  conn.pc = "respond" /\ ~tcp.broken
              => Ends({Final(d) : d \in Emptied(Running(http, tcp))})
                 = Ends(Emptied(Final(Running(http, tcp)))))

\* C34 witness: the drain of async_finish has run to its end, over a body
\* the handler had read nothing of, between two partial writes of the
\* terminal write, after the handler had read and written in turn.
ReadWriteApartWitness ==
    /\ ops.done = <<"discard">>
    /\ ops.writes # <<>>
    /\ ops.writes[1].started
    /\ hist.sent > 0
    /\ hist.body # <<>>
    /\ Len(hist.body) < Len(hist.session[1].body)

\* C35: an asynchronous write that the socket takes whole, or fails, in
\* one step leaves the count of the response bytes and the wire as
\* write_some leaves them for a buffer of the same size, from the same
\* exchange and with the same socket.
SyncAsAsync ==
    [][\A i \in DOMAIN ops.writes :
        LET w == ops.writes[i]
            Suffix == Len(prepare_write_suffix(http, w.nBytes))
            Buffer == SubSeq(w.rest, Len(w.rest) - Suffix - w.nBytes + 1,
                             Len(w.rest) - Suffix)
            Sync == write_some(Running(http, tcp), Buffer)
        IN  /\ ~w.started
            /\ \A j \in DOMAIN ops'.writes : ops'.writes[j].id # w.id
            => /\ http'.responseBytes_ = Sync.h.responseBytes_
               /\ tcp'.wire = Sync.t.wire]_vars

OrderKept ==
    /\ [](LET consumed == Len(input) - Len(Unconsumed)
          IN  /\ consumed >= 0
              /\ Unconsumed = After(consumed)
              /\ \A i \in DOMAIN hist.body :
                    /\ hist.body[i] <= consumed
                    /\ i > 1 => hist.body[i - 1] < hist.body[i])
    /\ [][Len(Unconsumed') <= Len(Unconsumed)]_vars

\* C38 witness: the first exchange of a connection has finished after a
\* 100 Continue; its handler was given the whole body of its request, and
\* the final finish has put bytes of the second request, over-read since,
\* back into readBuffer_.
OrderKeptWitness ==
    /\ Finished
    /\ conn.exchange = 1
    /\ hist.interims = 1
    /\ hist.body # <<>>
    /\ Len(hist.body) = Len(hist.session[1].body)
    /\ tcp.readBuffer_ # <<>>

\* C39: the null read of handle_connect decides the exchange.  When it
\* fails, the error is kept in *status, no handler is called, and from
\* then on the connection stays closed: no exchange is created on it.
\* When it succeeds, the handler registered for the path, or the default
\* handler when there is none, is called with the method and the path of
\* the request decoded.  A handler is called from the completion of that
\* read alone, and an exchange is read once, when it is created, so an
\* exchange has one handler call at most.
OneHandler ==
    /\ [](conn.status # "ok" => conn.pc = "closed")
    /\ [][LET Called == conn'.pc \in {"handler", "default"}
              Reads == read_some(Running(http, tcp), 0)
          IN  /\ conn.status # "ok"
                 => conn'.pc = "closed" /\ conn'.exchange = conn.exchange
              /\ conn.pc = "reading"
                 => \E m \in Reads :
                        /\ http'.requestMethod_ = m.h.requestMethod_
                        /\ IF m.err # "ok"
                           THEN conn'.pc = "closed" /\ conn'.status = m.err
                           ELSE /\ conn'.status = "ok"
                                /\ conn'.pc = IF Registered(m.h.requestPath_)
                                              THEN "handler" ELSE "default"
              /\ Called /\ conn.pc # conn'.pc
                 => /\ conn.pc = "reading"
                    /\ http'.requestMethod_ = hist.session[conn.exchange].method
                    /\ http'.requestMethod_ # <<>>
                    /\ http'.requestPath_ = hist.session[conn.exchange].path
              /\ conn.pc \in {"respond", "finishing", "finished"} => ~Called
              /\ conn'.pc = "reading" /\ conn.pc # "reading" => conn.pc = "idle"
              /\ conn'.exchange # conn.exchange
                 => /\ conn'.exchange = conn.exchange + 1
                    /\ conn'.pc = "reading"]_vars

\* C39 witness: the second exchange of a connection was dropped because
\* its null read failed, after the first had its handler called and
\* finished: the connection is closed with the error in *status.
OneHandlerWitness ==
    /\ conn.pc = "closed"
    /\ conn.exchange = 2
    /\ conn.status # "ok"
    /\ http.requestMethod_ = <<>>
    /\ Len(hist.replies) = 1

\* C30: a read_some into a buffer that is not empty, on return without
\* error, does not leave requestBytes_ at 0 with requestChunksPending_
\* set: on a chunked request that is framed well, chunks are pending
\* exactly when body bytes are left, and the bytes left unconsumed begin
\* at the next body byte, behind the delimiter and the next chunk header,
\* or behind the request, trailers included, when the body is exhausted;
\* and a read that takes the last byte of a chunk reports
\* invalid_chunk_delimiter when the line behind the chunk is not empty,
\* and in no other case.
ChunkContinuation ==
    LET Line(rest) == FindEnd(Text(rest), crlf)
        AtEnd(c) ==
            /\ c.b > 0
            /\ c.pre.requestChunksPending_
            /\ c.ret = c.pre.requestBytes_
        Consumed(body, d) ==
            /\ http.requestChunksPending_ <=> d < Len(body)
            /\ http.streambuf_ \o Source(tcp)
               = After(IF d < Len(body) THEN body[d + 1] - 1 ELSE hist.ends[1])
        Returned(c) ==
            /\ c.b > 0 /\ c.err = "ok"
               => /\ ~(http.requestBytes_ = 0 /\ http.requestChunksPending_)
                  /\ SentChunked /\ BodyRuns.ok /\ hist.failed = "ok"
                     => Consumed(Flatten(BodyRuns.runs), Len(hist.body))
            /\ c.pre.requestMethod_ # <<>> /\ AtEnd(c) /\ Line(Drop(c.src, c.ret)) > 2
               => c.err = "invalid_chunk_delimiter"
            /\ c.err = "invalid_chunk_delimiter"
               => /\ c.b > 0
                  /\ c.pre.requestMethod_ # <<>> => AtEnd(c) /\ Line(Drop(c.src, c.ret)) > 2
    IN  hist.last # <<>> => Returned(hist.last[1])

\* C30 witness: a read into a buffer that is not empty took the last byte
\* of a chunk and returned without error, with the bytes of the next chunk
\* to read.
ChunkContinuationWitness ==
    /\ hist.last # <<>>
    /\ hist.last[1].b > 0
    /\ hist.last[1].err = "ok"
    /\ hist.last[1].pre.requestMethod_ # <<>>
    /\ hist.last[1].pre.requestChunksPending_
    /\ hist.last[1].ret = hist.last[1].pre.requestBytes_
    /\ http.requestChunksPending_
    /\ http.requestBytes_ > 0

Named(lines, name) ==
    LET Gives(l) ==
            /\ Len(l) > Len(name)
            /\ UpperCase(Take(l, Len(name) + 1)) = UpperCase(name \o <<":">>)
    IN  SelectSeq(Tail(lines), Gives)

\* The values of header lines, in their order and with ", " between them.
RECURSIVE Joined(_, _)
Joined(lines, name) ==
    LET Value(l) == TrimLeft(Drop(l, Len(name) + 1))
    IN  IF Len(lines) = 1 THEN Value(lines[1])
        ELSE Value(lines[1]) \o <<",", SP>> \o Joined(Tail(lines), name)

\* The names the header lines give, as written.
NamesOf(lines) ==
    {Take(lines[i], FindEnd(lines[i], <<":">>) - 1) :
        i \in {j \in 2..Len(lines) : FindEnd(lines[j], <<":">>) > 0}}

\* The header block was decoded and no trailer was read since.
HeadersParsed ==
    /\ ReadWell
    /\ http.requestMethod_ # <<>>
    /\ SentChunked => http.requestChunksPending_

\* C16: once the header block of a request is parsed, each name its header
\* lines give has one entry in requestHeaders_, whatever the case the
\* lines write it in, with the values of those lines in their order and
\* ", " between them; the map has no other entry.
HeaderCoalescing ==
    LET One(name, lines) ==
            /\ HasHeader(http.requestHeaders_, name)
            /\ HeaderValue(http.requestHeaders_, name) = Joined(lines, name)
    IN  HeadersParsed
        => /\ \A name \in NamesOf(SentLines) : One(name, Named(SentLines, name))
           /\ DOMAIN http.requestHeaders_
              = {UpperCase(name) : name \in NamesOf(SentLines)}

\* C16 witness: three lines name the header A, one of them as a; the map
\* holds their values as one.
HeaderCoalescingWitness ==
    /\ HeadersParsed
    /\ Len(Named(SentLines, <<"A">>)) = 3
    /\ NamesOf(SentLines) = {<<"A">>, <<"a">>}
    /\ HeaderValue(http.requestHeaders_, <<"a">>) = <<"1", ",", SP, "2", ",", SP, "3">>

\* The lines of the trailer block, behind the line of the last chunk.
TrailerLines == <<<<"0">>>> \o Lines(BodyRuns.trailers)

\* The body of a chunked request was read to its end, trailers included.
TrailersRead ==
    /\ BodyRuns.ok /\ ReadWell
    /\ SentChunked
    /\ http.requestMethod_ # <<>>
    /\ ~http.requestChunksPending_

\* C17: once the body of a chunked request is exhausted, each name its
\* trailer lines give has an entry in requestHeaders_ under "/" and the
\* name, with the value the trailer gives; and the entry of each header
\* is what the header block gave it, whatever the trailers are named.
TrailersApart ==
    LET Slash(name) == <<"/">> \o name
        Trailer(name, lines) ==
            /\ HasHeader(http.requestHeaders_, Slash(name))
            /\ HeaderValue(http.requestHeaders_, Slash(name)) = Joined(lines, name)
        Header(name, lines) ==
            /\ HasHeader(http.requestHeaders_, name)
            /\ HeaderValue(http.requestHeaders_, name) = Joined(lines, name)
    IN  TrailersRead
        => /\ \A name \in NamesOf(TrailerLines) : Trailer(name, Named(TrailerLines, name))
           /\ \A name \in NamesOf(SentLines) : Header(name, Named(SentLines, name))

\* A read on a request whose chunks are framed well, with no failed read
\* before it.
ChunkedRead ==
    /\ SentChunked
    /\ BodyRuns.ok
    /\ hist.last # <<>>
    /\ hist.last[1].after = "ok"

\* The exchange decodes the chunks of the body, as their framing alone
\* tells them: no read fails, the bytes delivered are the first of the
\* chunks' bytes, requestBytes_ is what is left of the chunk the next of
\* them lies in (the size of the first chunk when none was delivered),
\* and chunks are pending until the last byte was delivered.
DecodedInChunks ==
    LET Chunks(c, body, runs, d) ==
            /\ c.err \in {"ok", "eof"}
            /\ http.requestMethod_ # <<>>
            /\ d <= Len(body)
            /\ hist.body = Take(body, d)
            /\ http.requestBytes_ = RestOfRun(runs, d)
            /\ http.requestChunksPending_ <=> d < Len(body)
            /\ c.err = "eof" <=> c.b > 0 /\ c.ret = 0
    IN  Chunks(hist.last[1], Flatten(BodyRuns.runs), BodyRuns.runs, Len(hist.body))

\* Each Content-Length header of the request begins with a decimal digit.
LengthReadable ==
    \A v \in FieldValues(SentLines, ContentLengthName) :
        v # <<>> /\ Head(v) \in Range(Digits)

\* C18 as stated: a request with a Transfer-Encoding header other than
\* identity is decoded in chunks, requestBytes_ starting from the size of
\* the first chunk, whether or not it has a Content-Length header and
\* whatever that header's value.
TransferEncodingFirst == ChunkedRead => DecodedInChunks

\* C18: a request with a Transfer-Encoding header other than identity is
\* decoded in chunks, requestBytes_ starting from the size of the first
\* chunk, whether or not it has a Content-Length header and whatever
\* number that header gives, so long as the header gives a number.
TransferEncodingOverLength == ChunkedRead /\ LengthReadable => DecodedInChunks

\* C18 witness: a body of two chunks was read to its end under a
\* Content-Length header that gives another length than the body has.
TransferEncodingOverLengthWitness ==
    /\ ChunkedRead
    /\ FieldValues(SentLines, ContentLengthName) = {<<"9">>}
    /\ Len(BodyRuns.runs) = 2
    /\ hist.last[1].err = "eof"
    /\ Text(hist.body) = hist.session[1].body

\* The first line of the first request.
SentLine == Take(SentFirst, FindEnd(SentFirst, crlf) - 2)

\* The ways to read a line as METHOD SP REQUEST-TARGET SP HTTP-VERSION: a
\* method of token characters, a target without white space, and a
\* version HTTP/ DIGIT . DIGIT.
RequestLineForms(l) ==
    LET Form(i, j) ==
            [method |-> Take(l, i - 1), target |-> SubSeq(l, i + 1, j - 1),
             version |-> Drop(l, j)]
        Version(v) ==
            /\ Len(v) = Len(HTTP11)
            /\ \A k \in DOMAIN v :
                IF HTTP11[k] \in Range(Digits) THEN v[k] \in Range(Digits)
                ELSE v[k] = HTTP11[k]
        Wellformed(f) ==
            /\ f.method # <<>> /\ Range(f.method) \subseteq TokenChars
            /\ f.target # <<>> /\ Range(f.target) \cap {SP, "\t", CR, LF} = {}
            /\ Version(f.version)
    IN  {f \in {Form(i, j) : i, j \in {k \in DOMAIN l : l[k] = SP}} : Wellformed(f)}

\* The read that decoded, or failed to decode, the first request.
FirstDecoding ==
    /\ hist.last # <<>>
    /\ hist.last[1].after = "ok"
    /\ hist.last[1].pre.requestMethod_ = <<>>

\* C19: decoding a request whose first line reads as METHOD SP
\* REQUEST-TARGET SP HTTP-VERSION with a version other than HTTP/1.1
\* fails with unsupported_http_version, whatever follows the line; and
\* decoding a request whose first line does not read so fails with
\* invalid_request_line.
VersionErrors ==
    LET Fails(c, forms) ==
            /\ forms # {} /\ (\A f \in forms : f.version # HTTP11)
               => c.err = "unsupported_http_version"
            /\ forms = {} => c.err = "invalid_request_line"
            /\ c.err \in {"unsupported_http_version", "invalid_request_line"}
               => c.ret = 0 /\ c.out = <<>>
    IN  FirstDecoding => Fails(hist.last[1], RequestLineForms(SentLine))

\* C19 witness: a request line under HTTP/1.0 with a header line without
\* a colon behind it was refused for its version.
VersionErrorsWitness ==
    /\ FirstDecoding
    /\ hist.last[1].err = "unsupported_http_version"
    /\ RequestLineForms(SentLine) # {}
    /\ FindEnd(SentFirst, <<":">>) = 0
    /\ Len(Lines(SentFirst)) > 3

\* C20: once a read_some on an exchange failed with a decoder error, no
\* later read_some on it runs the decoder again (create() runs when
\* requestMethod_ is empty) and none reports success.
NoRetry ==
    LET Later(c) ==
            /\ c.pre.requestMethod_ # <<>>
            /\ c.err # "ok"
    IN  hist.last # <<>> /\ hist.last[1].after \in DecoderErrors
        => Later(hist.last[1])

\* The first read of the first exchange, handle_connect's read into no
\* buffer, has completed without error.
ProbeDone ==
    /\ conn.exchange = 1
    /\ conn.pc = "reading"
    /\ conn'.pc \in {"handler", "default"}

\* C23: an exchange is not decoded when it is constructed; its first read,
\* though it reads into no buffer, decodes the request up to its body:
\* method, resource and version are those of the request line and not
\* empty, requestBytes_ is the size of the body or of its first chunk, no
\* body byte was delivered, and the bytes not yet consumed begin with the
\* body's first byte.  From then on no step of the exchange (read, write
\* or finish) changes method, version or resource; with requestMethod_
\* not empty, read_some does not call create() again.
LazyDecoding ==
    /\ [](conn.pc = "reading" => http = NewHTTP)
    /\ [][LET Line(f) ==
                  /\ http'.requestMethod_ = f.method /\ f.method # <<>>
                  /\ http'.requestResource_ = f.target /\ f.target # <<>>
                  /\ http'.requestVersion_ = f.version /\ f.version # <<>>
              Body(runs) ==
                  /\ BodyRuns.ok
                  /\ http'.requestBytes_ = RestOfRun(runs, 0)
                  /\ hist'.body = <<>>
                  /\ http'.streambuf_ \o Source(tcp')
                     = After(IF runs = <<>> THEN hist.ends[1] ELSE runs[1][1] - 1)
              Same ==
                  /\ http'.requestMethod_ = http.requestMethod_
                  /\ http'.requestVersion_ = http.requestVersion_
                  /\ http'.requestResource_ = http.requestResource_
          IN  /\ ProbeDone
                 => /\ \E f \in RequestLineForms(SentLine) : Line(f)
                    /\ Body(BodyRuns.runs)
              /\ http.requestMethod_ # <<>> /\ conn'.exchange = conn.exchange
                 => Same]_vars

\* C23 witness: an exchange whose handler read of the body and wrote has
\* finished, and its method, resource and version are the request's.
LazyDecodingWitness ==
    /\ Finished
    /\ conn.exchange = 1
    /\ hist.body # <<>>
    /\ hist.sent > 0
    /\ http.requestMethod_ = PutText
    /\ http.requestResource_ = <<"/", "a">>
    /\ http.requestVersion_ = HTTP11

\* C13: a body the response encoder framed in chunks, whatever the writes
\* it was split into, read as a chunked request body with buffers of any
\* size, is delivered byte for byte: what has been read is the beginning
\* of the body, no read fails, and the read that reports end of file
\* finds the whole body delivered.
RoundTrip ==
    (\E r \in EncodedPuts : r.text = SentFirst)
    => /\ Len(hist.body) <= Len(hist.session[1].body)
       /\ Text(hist.body) = Take(hist.session[1].body, Len(hist.body))
       /\ \A i \in DOMAIN hist.last :
            /\ hist.last[i].err \in {"ok", "eof"}
            /\ hist.last[i].err = "eof" => Text(hist.body) = hist.session[1].body

\* C13 witness: the 17 bytes of a body written in one chunk, with a
\* trailer behind it, have been read to the end of the body.
RoundTripWitness ==
    /\ \E r \in EncodedPuts : r.text = SentFirst
    /\ HasHeader(http.requestHeaders_, <<"T">>)
    /\ hist.last # <<>>
    /\ hist.last[1].err = "eof"
    /\ Text(hist.body) = LongBody

----------------------------------------------------------------------------
(* Claims about the response encoder *)

\* The bytes the call c put on the wire.
TextOf(c) == SubSeq(tcp.wire, c.from + 1, c.to)

\* The status line and the header lines at the head of text; none when
\* text does not begin with a status line and a header block.
HeadOf(text) ==
    LET Block(e) ==
            IF e > 0 /\ StatusOf(Lines(Take(text, e - 4))[1]) >= 0
            THEN Lines(Take(text, e - 4))
            ELSE <<>>
    IN  Block(FindEnd(text, crlf2))

\* What follows the header block in text; all of it when there is none.
BodyOf(text) ==
    IF HeadOf(text) = <<>> THEN text ELSE Drop(text, FindEnd(text, crlf2))

\* The response must not carry a body: status 1xx, 204 or 304, or the
\* request was a HEAD.
Bodiless(h) ==
    \/ h.responseStatus_ < 200
    \/ h.responseStatus_ \in {204, 304}
    \/ h.requestMethod_ = HeadText

\* The call i is the first write of the response: the calls before it, if
\* any, were made under an informational status and wrote no body byte.
FirstWrite(i) ==
    \A j \in 1..(i - 1) :
        hist.log[j].pre.responseStatus_ < 200 /\ hist.log[j].n = 0

\* The trailer block of the response, as a client reads it.
TrailerBlock(h) ==
    IF HasHeader(h.responseTrailers_, TrailerName)
    THEN HeaderLine(TrailerName, TrailerValue)
    ELSE <<>>

\* One chunk: the size in hex, CRLF, the data, CRLF.
IsChunk(text, data) ==
    LET Sized(e) ==
            /\ e > 0
            /\ Number(Take(text, e - 2), 16, HexDigit) = Len(data)
            /\ Drop(text, e) = data \o crlf
    IN  Sized(FindEnd(text, crlf))

\* C6: a finish() under a status of 200 or more, when nothing has been
\* written yet, puts Content-Length: 0 into the header block, which is
\* not chunked and with whose blank line the response ends (stated here
\* for the responses that may carry a body).
FinishForcesLength ==
    \A i \in DOMAIN hist.log :
        LET c == hist.log[i]
        IN  c.op = "finish" /\ ~Bodiless(c.pre) /\ FirstWrite(i)
            => /\ FieldValues(HeadOf(TextOf(c)), ContentLengthName) = {<<"0">>}
               /\ ChunkedText \notin FieldValues(HeadOf(TextOf(c)), TransferEncodingName)
               /\ BodyOf(TextOf(c)) = <<>>

\* C7: at the first write of a response that may carry a body, a
\* Transfer-Encoding header other than identity makes the response
\* chunked and removes Content-Length; otherwise no Content-Length makes
\* it chunked and inserts Transfer-Encoding: chunked; otherwise it is not
\* chunked and no Transfer-Encoding header is added.  The first write is
\* the first call under the final status, nothing but informational
\* responses without a body having gone before it.
FramingDecision ==
    \A i \in DOMAIN hist.log :
        LET c == hist.log[i]
            set == c.pre.responseHeaders_
            sent == HeadOf(TextOf(c))
        IN  FirstWrite(i) /\ ~Bodiless(c.pre)
            => IF /\ HasHeader(set, TransferEncodingName)
                  /\ HeaderValue(set, TransferEncodingName) # IdentityText
               THEN /\ c.post.responseChunked_
                    /\ FieldValues(sent, ContentLengthName) = {}
                    /\ FieldValues(sent, TransferEncodingName)
                        = {HeaderValue(set, TransferEncodingName)}
               ELSE IF ~HasHeader(set, ContentLengthName)
               THEN /\ c.post.responseChunked_
                    /\ FieldValues(sent, ContentLengthName) = {}
                    /\ FieldValues(sent, TransferEncodingName) = {ChunkedText}
               ELSE /\ ~c.post.responseChunked_
                    /\ FieldValues(sent, ContentLengthName)
                        = {HeaderValue(set, ContentLengthName)}
                    /\ FieldValues(sent, TransferEncodingName)
                        = {HeaderValue(set, k) : k \in {k \in {TransferEncodingName} :
                                                        HasHeader(set, k)}}

\* C7 witness: the first write of a response to a GET took a
\* Transfer-Encoding: chunked and a Content-Length set by the handler.
FramingDecisionWitness ==
    /\ hist.log # <<>>
    /\ hist.log[1].op = "write"
    /\ hist.log[1].n > 0
    /\ ~Bodiless(hist.log[1].pre)
    /\ HasHeader(hist.log[1].pre.responseHeaders_, ContentLengthName)
    /\ HasHeader(hist.log[1].pre.responseHeaders_, TransferEncodingName)
    /\ HeaderValue(hist.log[1].pre.responseHeaders_, TransferEncodingName) = ChunkedText

\* C8: a call on a response that must not carry a body puts nothing on
\* the wire but a status line and a header block: no chunk size, no final
\* chunk, no body byte.
BodilessStaysBare ==
    \A i \in DOMAIN hist.log :
        LET c == hist.log[i]
        IN  Bodiless(c.pre)
            => \/ TextOf(c) = <<>>
               \/ HeadOf(TextOf(c)) # <<>> /\ BodyOf(TextOf(c)) = <<>>

\* C9: a write of n > 0 bytes on a response that may carry a body reports
\* n; chunked, it puts one chunk of the n bytes on the wire, not chunked,
\* the n bytes as they are; the header block goes before them on the first
\* write of the response and on no other; and a response that is not
\* chunked gets no final chunk.
OneChunkPerWrite ==
    \A i \in DOMAIN hist.log :
        LET c == hist.log[i]
        IN  c.pre.responseStatus_ >= 200 /\ ~Bodiless(c.pre)
            => /\ c.n > 0
                  => /\ c.ret = c.n
                     /\ (HeadOf(TextOf(c)) # <<>>) = FirstWrite(i)
                     /\ IF c.post.responseChunked_
                        THEN IsChunk(BodyOf(TextOf(c)), Take(ResponseBody, c.n))
                        ELSE BodyOf(TextOf(c)) = Take(ResponseBody, c.n)
               /\ c.n = 0 /\ ~c.post.responseChunked_ => BodyOf(TextOf(c)) = <<>>

\* C10: chunked, a write of no bytes puts the final chunk on the wire (0,
\* CRLF, the trailers, CRLF), and no call after it puts anything there.
FinalChunkOnce ==
    \A i \in DOMAIN hist.log :
        LET c == hist.log[i]
        IN  /\ c.n = 0 /\ c.post.responseChunked_
            /\ \A j \in 1..(i - 1) : hist.log[j].n > 0 \/ hist.log[j].pre.responseStatus_ < 200
            => /\ BodyOf(TextOf(c)) = <<"0">> \o crlf \o TrailerBlock(c.pre) \o crlf
               /\ \A j \in (i + 1)..Len(hist.log) : TextOf(hist.log[j]) = <<>>

\* C32: once a call under a status of 200 or more has put the status line
\* and the headers on the wire, no later write_some or finish of the
\* exchange puts a status line and headers there.
PrologueOnce ==
    \A i \in DOMAIN hist.log : \A j \in DOMAIN hist.log :
        /\ i < j
        /\ hist.log[i].pre.responseStatus_ >= 200
        /\ HeadOf(TextOf(hist.log[i])) # <<>>
        => HeadOf(TextOf(hist.log[j])) = <<>>

\* C33: once a call under a status of 200 or more has put the status line
\* and the headers on the wire, responseChunked_ is after every later call
\* of the exchange, and between the calls, what it was after that call,
\* whatever status and headers the handler sets in between.
ChunkedLocked ==
    \A i \in DOMAIN hist.log :
        /\ hist.log[i].pre.responseStatus_ >= 200
        /\ HeadOf(TextOf(hist.log[i])) # <<>>
        => /\ http.responseChunked_ = hist.log[i].post.responseChunked_
           /\ \A j \in DOMAIN hist.log :
                i < j => hist.log[j].post.responseChunked_
                         = hist.log[i].post.responseChunked_

====
